---- MODULE Spec2Model ----
(***************************************************************************)
(* Chile earthquake simulator: the attenuation model, the MMI scale, the   *)
(* damage model, the geographic utilities and the App component that       *)
(* drives them.                                                            *)
(*                                                                         *)
(* A JavaScript number is modelled as a fixed-point integer counting       *)
(* thousandths (7.2 is 7200, 335 km is 335000), plus three reserved        *)
(* values for NaN, +Infinity and -Infinity.  Products and quotients are    *)
(* truncated to the thousandth, where IEEE doubles round to 53 bits.       *)
(***************************************************************************)
EXTENDS Integers, Sequences, FiniteSets, TLC

VARIABLES
  pc,            \* "call" before the function under study runs, "done" after
  fn,            \* name of the exported function being called
  args,          \* its arguments, a record
  ret,           \* what the call produced: a value or a thrown Error
  magnitude,     \* App state: useState(7.5)
  depth,         \* App state: useState(35)
  epicenter,     \* App state: {lat, lon}
  selectedCity,  \* App state: useState('Santiago')
  cities,        \* App state: rows of cities.csv, [] until loaded
  loading,       \* App state: useState(true)
  results,       \* App state: null or the record built by the results effect
  table,         \* mmiScale.js: the contents of the module's MMI_SCALE array
  held,          \* objects a caller of the MMI functions got back and still holds
  parameters,    \* the contents of ATTENUATION_CONSTANTS and DAMAGE_PARAMETERS
  minDist,       \* estimateFeltRadius: let minDist
  maxDist,       \* estimateFeltRadius: let maxDist
  iterations,    \* estimateFeltRadius: let iterations
  evaluated,     \* compareDamageScenarios: indices the callback of map has run on
  mapped,        \* compareDamageScenarios: the array map has built so far
  shakeClass,    \* App with the shake animation: useState('')
  timers         \* pending setTimeout callbacks: the milliseconds each has left

vars == <<pc, fn, args, ret, magnitude, depth, epicenter, selectedCity,
          cities, loading, results, table, held, parameters, minDist, maxDist,
          iterations, evaluated, mapped, shakeClass, timers>>

appVars == <<magnitude, depth, epicenter, selectedCity, cities, loading, results>>
callVars == <<pc, fn, args, ret>>
heapVars == <<table, held, parameters>>
loopVars == <<minDist, maxDist, iterations>>
mapVars == <<evaluated, mapped>>
shakeVars == <<shakeClass, timers>>

-----------------------------------------------------------------------------
(* JavaScript numbers                                                      *)

Scale == 1000
PosInf == 2000000000
NegInf == -2000000000
NaN == 2000000001

isNaN(x) == x = NaN
IsFinite(x) == x # NaN /\ x # PosInf /\ x # NegInf

\* Relational operators: every comparison with NaN is false.
Lt(x, y) == x # NaN /\ y # NaN /\ x < y
Gt(x, y) == x # NaN /\ y # NaN /\ x > y
Le(x, y) == x # NaN /\ y # NaN /\ x <= y
Ge(x, y) == x # NaN /\ y # NaN /\ x >= y

Abs(x) == IF x < 0 THEN -x ELSE x
Sign(x) == IF x < 0 THEN -1 ELSE 1

MathMax(x, y) == IF x = NaN \/ y = NaN THEN NaN ELSE IF x >= y THEN x ELSE y
MathMin(x, y) == IF x = NaN \/ y = NaN THEN NaN ELSE IF x <= y THEN x ELSE y

\* <<a*b \div c, a*b % c>> for a, b >= 0 and c > 0, by doubling, so that no
\* intermediate value leaves the 32-bit range of the model checker.
RECURSIVE MulDivMod(_, _, _)
MulDivMod(a, b, c) ==
  IF b = 0 THEN <<0, 0>>
  ELSE LET h  == MulDivMod(a, b \div 2, c)
           r2 == 2 * h[2] + (IF b % 2 = 1 THEN a % c ELSE 0)
           q2 == 2 * h[1] + (IF b % 2 = 1 THEN a \div c ELSE 0)
       IN  <<q2 + (r2 \div c), r2 % c>>

\* a*b \div c for a, b >= 0 and a divisor whose square fits: split both
\* factors at the divisor.
MulDivSmall(a, b, c) ==
  (a \div c) * b + (a % c) * (b \div c) + ((a % c) * (b % c)) \div c

\* a*b \div 1000000 for a, b >= 0: split both factors at the thousand.
MulMicro(a, b) ==
  LET ah == a \div 1000
      al == a % 1000
      bh == b \div 1000
      bl == b % 1000
  IN  ah * bh + (ah * bl + al * bh + ((al * bl) \div 1000)) \div 1000

SqrtBound == 46341

\* a*b/c on finite numbers, truncated toward zero.
MulDiv(a, b, c) ==
  LET x == Abs(a)
      y == Abs(b)
      z == Abs(c)
      q == IF z < SqrtBound THEN MulDivSmall(x, y, z)
           ELSE IF z = 1000000 THEN MulMicro(x, y)
           ELSE IF x < y THEN MulDivMod(y, x, z)[1] ELSE MulDivMod(x, y, z)[1]
  IN  Sign(a) * Sign(b) * Sign(c) * q

\* x * y and x / y on finite fixed-point numbers.
Mul(x, y) == MulDiv(x, y, Scale)
Div(x, y) == MulDiv(x, Scale, y)

\* Math.round: the nearest integer, halves toward +Infinity.
MathRound(x) ==
  IF ~IsFinite(x) THEN x ELSE ((x + (Scale \div 2)) \div Scale) * Scale

WideBase == 32768

\* Products of two numbers below 2^26 do not fit the model checker's 32-bit
\* integers: they are kept as three digits <<high, middle, low>> in base
\* WideBase.
WideNorm(hh, mm, ll) ==
  << hh + (mm + ll \div WideBase) \div WideBase,
     (mm + ll \div WideBase) % WideBase,
     ll % WideBase >>

WideMul(a, b) ==
  WideNorm((a \div WideBase) * (b \div WideBase),
           (a \div WideBase) * (b % WideBase) + (a % WideBase) * (b \div WideBase),
           (a % WideBase) * (b % WideBase))

WideAdd(p, q) == WideNorm(p[1] + q[1], p[2] + q[2], p[3] + q[3])

WideLe(p, q) ==
  \/ p[1] < q[1]
  \/ p[1] = q[1] /\ p[2] < q[2]
  \/ p[1] = q[1] /\ p[2] = q[2] /\ p[3] <= q[3]

\* Largest r in [lo, hi) with r*r <= n, n a wide number, by bisection.
RECURSIVE HypotIter(_, _, _)
HypotStep(n, lo, hi, mid) ==
  IF WideLe(WideMul(mid, mid), n) THEN HypotIter(n, mid, hi) ELSE HypotIter(n, lo, mid)

HypotIter(n, lo, hi) ==
  IF hi - lo <= 1 THEN lo ELSE HypotStep(n, lo, hi, (lo + hi) \div 2)

\* Math.sqrt(x*x + y*y) on finite x, y >= 0, truncated to the thousandth.
Hypot(x, y) ==
  HypotIter(WideAdd(WideMul(x, x), WideMul(y, y)), MathMax(x, y), x + y + 1)

\* Math.sqrt(x * x + y * y) on JavaScript numbers.
SqrtSumSquares(x, y) ==
  IF x = NaN \/ y = NaN THEN NaN
  ELSE IF ~IsFinite(x) \/ ~IsFinite(y) THEN PosInf
  ELSE Hypot(Abs(x), Abs(y))

LogScale == 10000
LogBits == 14
LogHalf == 500000

\* Number of decimal digits before the point of x >= 1, minus one.
RECURSIVE Decade(_)
Decade(x) == IF x < 10 * Scale THEN 0 ELSE 1 + Decade(x \div 10)

RECURSIVE Pow10(_)
Pow10(n) == IF n = 0 THEN 1 ELSE 10 * Pow10(n - 1)

\* Fraction bits of log10(y / LogScale) for LogScale <= y < 10 * LogScale, in
\* millionths: square the mantissa, and each time it passes 10 the next
\* binary digit of the logarithm is 1.
RECURSIVE LogFraction(_, _, _)
LogFraction(y, weight, bits) ==
  IF bits = 0 THEN 0
  ELSE LET sq == MulDiv(y, y, LogScale)
       IN  IF sq >= 10 * LogScale
           THEN weight + LogFraction(sq \div 10, weight \div 2, bits - 1)
           ELSE LogFraction(sq, weight \div 2, bits - 1)

\* Math.log10(x) for finite x >= 1.
Log10(x) ==
  LET n == Decade(x)
      y == IF n = 0 THEN x * (LogScale \div Scale)
           ELSE x \div Pow10(n - 1)
  IN  n * Scale + (LogFraction(y, LogHalf, LogBits) \div Scale)

-----------------------------------------------------------------------------
(* Calls and their outcomes                                                *)

\* null
Null == [kind |-> "null"]

Pending == [kind |-> "pending"]
Return(v) == [kind |-> "value", value |-> v]
\* throw new Error(`Invalid <what>: ${value}. <range>`)
Throw(what, value, range) ==
  [kind |-> "error", what |-> what, value |-> value, range |-> range]

IsError(r) == r.kind = "error"
IsValue(r) == r.kind = "value"

-----------------------------------------------------------------------------
(* attenuationModel.js                                                     *)

ATTENUATION_CONSTANTS == [a |-> -3500, b |-> 1800, c |-> 3500, d |-> 2]

MaxMagnitude == 10000
MaxDepth == 700000
MinR == 1000

\* a + (b * magnitude) - (c * Math.log10(R)) - (d * R)
\* + and * of JavaScript numbers, infinities and NaN included.
Plus(x, y) ==
  IF x = NaN \/ y = NaN THEN NaN
  ELSE IF IsFinite(x) /\ IsFinite(y) THEN x + y
  ELSE IF IsFinite(x) THEN y
  ELSE IF IsFinite(y) \/ x = y THEN x
  ELSE NaN

Times(x, y) ==
  IF x = NaN \/ y = NaN THEN NaN
  ELSE IF IsFinite(x) /\ IsFinite(y) THEN Mul(x, y)
  ELSE IF x = 0 \/ y = 0 THEN NaN
  ELSE IF Sign(x) = Sign(y) THEN PosInf
  ELSE NegInf

Minus(x, y) == Plus(x, IF y = NaN THEN NaN ELSE -y)

\* Math.log10(R) for R >= 1, NaN or +Infinity.
MathLog10(R) == IF IsFinite(R) THEN Log10(R) ELSE R

\* a + (b * magnitude) - (c * Math.log10(R)) - (d * R)
AttenuationFormula(M, R) ==
  Minus(Minus(Plus(ATTENUATION_CONSTANTS.a, Times(ATTENUATION_CONSTANTS.b, M)),
              Times(ATTENUATION_CONSTANTS.c, MathLog10(R))),
        Times(ATTENUATION_CONSTANTS.d, R))

\* R = Math.max(Math.sqrt(distance * distance + depth * depth), 1.0)
AttenuationR(h, distance) == MathMax(SqrtSumSquares(distance, h), MinR)

\* calculateIntensity with the depth check left out.
calculateIntensity_NoDepthCheck(M, h, distance) ==
  IF Lt(M, 0) \/ Gt(M, MaxMagnitude)
  THEN Throw("magnitude", M, "Must be between 0 and 10.")
  ELSE IF Lt(distance, 0)
  THEN Throw("distance", distance, "Must be non-negative.")
  ELSE Return(MathMax(AttenuationFormula(M, AttenuationR(h, distance)), 0))

\* calculateIntensity returning the formula's value without Math.max(intensity, 0).
calculateIntensity_NoFloor(M, h, distance) ==
  IF Lt(M, 0) \/ Gt(M, MaxMagnitude)
  THEN Throw("magnitude", M, "Must be between 0 and 10.")
  ELSE IF Lt(h, 0) \/ Gt(h, MaxDepth)
  THEN Throw("depth", h, "Must be between 0 and 700 km.")
  ELSE IF Lt(distance, 0)
  THEN Throw("distance", distance, "Must be non-negative.")
  ELSE Return(AttenuationFormula(M, AttenuationR(h, distance)))

\* calculateIntensity accepting magnitudes up to 9 only.
calculateIntensity_MaxNine(M, h, distance) ==
  IF Lt(M, 0) \/ Gt(M, 9000)
  THEN Throw("magnitude", M, "Must be between 0 and 10.")
  ELSE IF Lt(h, 0) \/ Gt(h, MaxDepth)
  THEN Throw("depth", h, "Must be between 0 and 700 km.")
  ELSE IF Lt(distance, 0)
  THEN Throw("distance", distance, "Must be non-negative.")
  ELSE Return(MathMax(AttenuationFormula(M, AttenuationR(h, distance)), 0))

calculateIntensity(M, h, distance) ==
  IF Lt(M, 0) \/ Gt(M, MaxMagnitude)
  THEN Throw("magnitude", M, "Must be between 0 and 10.")
  ELSE IF Lt(h, 0) \/ Gt(h, MaxDepth)
  THEN Throw("depth", h, "Must be between 0 and 700 km.")
  ELSE IF Lt(distance, 0)
  THEN Throw("distance", distance, "Must be non-negative.")
  ELSE Return(MathMax(AttenuationFormula(M, AttenuationR(h, distance)), 0))

calculateIntensityFromHypocentral(M, hypocentralDistance) ==
  IF Lt(M, 0) \/ Gt(M, MaxMagnitude)
  THEN Throw("magnitude", M, "Must be between 0 and 10.")
  ELSE IF Lt(hypocentralDistance, 0)
  THEN Throw("hypocentral distance", hypocentralDistance, "Must be non-negative.")
  ELSE LET R == MathMax(hypocentralDistance, MinR)
           intensity == AttenuationFormula(M, R)
       IN  Return(MathMax(intensity, 0))

\* getEpicentralIntensity returning the formula's value without Math.max(.., 0).
getEpicentralIntensity_NoFloor(M, h) ==
  Return(AttenuationFormula(M, MathMax(h, MinR)))

getEpicentralIntensity(M, h) ==
  LET R == MathMax(h, MinR)
      intensity == AttenuationFormula(M, R)
  IN  Return(MathMax(intensity, 0))

\* Test 1 of validateModel: the reference event with its difference.
MauleAtSantiago(calculatedIntensity) ==
  [name |-> "2010 Maule at Santiago", magnitude |-> 8800, depth |-> 35000,
   distance |-> 335000, expectedIntensity |-> 7200,
   calculatedIntensity |-> calculatedIntensity,
   difference |-> Abs(calculatedIntensity - 7200)]

\* Test 2: calculatedIntensity >= expectedMinIntensity
NearbyStrong(calculatedIntensity) ==
  [name |-> "M8.0 at 50km", magnitude |-> 8000, depth |-> 30000, distance |-> 50000,
   expectedMinIntensity |-> 8000, calculatedIntensity |-> calculatedIntensity,
   meetsExpectation |-> Ge(calculatedIntensity, 8000)]

\* Test 3: calculatedIntensity <= expectedMaxIntensity
FarWeak(calculatedIntensity) ==
  [name |-> "M5.5 at 500km", magnitude |-> 5500, depth |-> 20000, distance |-> 500000,
   expectedMaxIntensity |-> 3000, calculatedIntensity |-> calculatedIntensity,
   meetsExpectation |-> Le(calculatedIntensity, 3000)]

validateModel ==
  Return(<< MauleAtSantiago(calculateIntensity(8800, 35000, 335000).value),
            NearbyStrong(calculateIntensity(8000, 30000, 50000).value),
            FarWeak(calculateIntensity(5500, 20000, 500000).value) >>)

FeltMaxDist == 5000000
Tolerance == 1000
MaxIterations == 50
DefaultTargetIntensity == 3000

\* (minDist + maxDist), the halving left out.
MidDist_Sum(lo, hi) == lo + hi

\* (minDist + maxDist) / 2
MidDist(lo, hi) == (lo + hi) \div 2

\* The loop condition with a tolerance of 10 km.
LoopContinues_Coarse(lo, hi, n) == Gt(hi - lo, 10 * Tolerance) /\ n < MaxIterations

\* maxDist - minDist > tolerance && iterations < maxIterations
LoopContinues(lo, hi, n) == Gt(hi - lo, Tolerance) /\ n < MaxIterations

-----------------------------------------------------------------------------
(* Math.exp and the logistic curve                                         *)

Micro == 1000000
EulerE == 2718282
ExpOverflow == 14000
ExpTerms == 12

\* Terms k+1, k+2, ... of the series of e^(f/Scale), in millionths, given
\* term k; each term is term * f / (k + 1).
RECURSIVE ExpSeries(_, _, _)
ExpSeries(term, f, k) ==
  IF k > ExpTerms \/ term = 0 THEN 0
  ELSE LET next == MulDiv(term, f, k * Scale)
       IN  next + ExpSeries(next, f, k + 1)

\* e^(f/Scale) for 0 <= f < Scale.
ExpFraction(f) == (Micro + ExpSeries(Micro, f, 1)) \div Scale

\* v * e^n
RECURSIVE TimesEPow(_, _)
TimesEPow(v, n) == IF n = 0 THEN v ELSE TimesEPow(MulDiv(v, EulerE, Micro), n - 1)

\* Math.exp(x) for finite x >= 0; +Infinity once the result leaves the range.
ExpPos(x) ==
  IF x >= ExpOverflow THEN PosInf
  ELSE TimesEPow(ExpFraction(x % Scale), x \div Scale)

\* 100 / (1 + Math.exp(x)).  For x < 0 the quotient is formed as
\* 100 - 100 / (1 + Math.exp(-x)), the same number, so that Math.exp is only
\* evaluated where its fixed-point value keeps its leading digits.
Logistic100(x) ==
  LET hundred == 100 * Scale
      tail(e) == IF e = PosInf THEN 0 ELSE MulDiv(hundred, Scale, Scale + e)
  IN  IF x = NaN THEN NaN
      ELSE IF x = PosInf THEN 0
      ELSE IF x = NegInf THEN hundred
      ELSE IF x >= 0 THEN tail(ExpPos(x))
      ELSE hundred - tail(ExpPos(-x))

-----------------------------------------------------------------------------
(* mmiScale.js                                                             *)

MMI_SCALE == <<
  [level |-> "I", numericLevel |-> 1, minIntensity |-> 0, maxIntensity |-> 1500,
   name |-> "Not felt", shaking |-> "Not felt", damage |-> "None", color |-> "#FFFFFF"],
  [level |-> "II", numericLevel |-> 2, minIntensity |-> 1500, maxIntensity |-> 2500,
   name |-> "Weak", shaking |-> "Weak", damage |-> "None", color |-> "#ACD8E9"],
  [level |-> "III", numericLevel |-> 3, minIntensity |-> 2500, maxIntensity |-> 3500,
   name |-> "Weak", shaking |-> "Weak", damage |-> "None", color |-> "#ACD8E9"],
  [level |-> "IV", numericLevel |-> 4, minIntensity |-> 3500, maxIntensity |-> 4500,
   name |-> "Light", shaking |-> "Light", damage |-> "None", color |-> "#7BC5A6"],
  [level |-> "V", numericLevel |-> 5, minIntensity |-> 4500, maxIntensity |-> 5500,
   name |-> "Moderate", shaking |-> "Moderate", damage |-> "Very light", color |-> "#FDE357"],
  [level |-> "VI", numericLevel |-> 6, minIntensity |-> 5500, maxIntensity |-> 6500,
   name |-> "Strong", shaking |-> "Strong", damage |-> "Light", color |-> "#FDB462"],
  [level |-> "VII", numericLevel |-> 7, minIntensity |-> 6500, maxIntensity |-> 7500,
   name |-> "Very strong", shaking |-> "Very strong", damage |-> "Moderate", color |-> "#FB923C"],
  [level |-> "VIII", numericLevel |-> 8, minIntensity |-> 7500, maxIntensity |-> 8500,
   name |-> "Severe", shaking |-> "Severe", damage |-> "Moderate to heavy", color |-> "#F87171"],
  [level |-> "IX", numericLevel |-> 9, minIntensity |-> 8500, maxIntensity |-> 9500,
   name |-> "Violent", shaking |-> "Violent", damage |-> "Heavy", color |-> "#DC2626"],
  [level |-> "X", numericLevel |-> 10, minIntensity |-> 9500, maxIntensity |-> 10500,
   name |-> "Extreme", shaking |-> "Extreme", damage |-> "Very heavy", color |-> "#991B1B"],
  [level |-> "XI", numericLevel |-> 11, minIntensity |-> 10500, maxIntensity |-> 11500,
   name |-> "Extreme", shaking |-> "Extreme", damage |-> "Very heavy", color |-> "#7F1D1D"],
  [level |-> "XII", numericLevel |-> 12, minIntensity |-> 11500, maxIntensity |-> PosInf,
   name |-> "Extreme", shaking |-> "Extreme", damage |-> "Very heavy", color |-> "#450A0A"] >>

\* { ...level, intensityValue }
WithIntensity(level, intensityValue) ==
  level @@ [intensityValue |-> intensityValue]

\* The loop of getMMI, from index i on: the first level whose range holds
\* intensityValue; the last level when none does.
RECURSIVE ScanLevels(_, _)
ScanLevels(intensityValue, i) ==
  IF i > Len(MMI_SCALE)
  THEN WithIntensity(MMI_SCALE[Len(MMI_SCALE)], intensityValue)
  ELSE IF Ge(intensityValue, MMI_SCALE[i].minIntensity)
          /\ Lt(intensityValue, MMI_SCALE[i].maxIntensity)
  THEN WithIntensity(MMI_SCALE[i], intensityValue)
  ELSE ScanLevels(intensityValue, i + 1)

\* The loop with the two comparisons the other way round at the edges:
\* minIntensity < intensityValue <= maxIntensity.
RECURSIVE ScanLevels_ClosedAbove(_, _)
ScanLevels_ClosedAbove(intensityValue, i) ==
  IF i > Len(MMI_SCALE)
  THEN WithIntensity(MMI_SCALE[Len(MMI_SCALE)], intensityValue)
  ELSE IF Gt(intensityValue, MMI_SCALE[i].minIntensity)
          /\ Le(intensityValue, MMI_SCALE[i].maxIntensity)
  THEN WithIntensity(MMI_SCALE[i], intensityValue)
  ELSE ScanLevels_ClosedAbove(intensityValue, i + 1)

\* getMMI with the closed-above loop.
getMMI_ClosedAbove(intensityValue) ==
  IF Lt(intensityValue, 0) \/ isNaN(intensityValue)
  THEN MMI_SCALE[1]
  ELSE ScanLevels_ClosedAbove(intensityValue, 1)

\* getMMI without the edge-case return.
getMMI_NoEdgeCase(intensityValue) == ScanLevels(intensityValue, 1)

getMMI(intensityValue) ==
  IF Lt(intensityValue, 0) \/ isNaN(intensityValue)
  THEN MMI_SCALE[1]
  ELSE ScanLevels(intensityValue, 1)

\* What a caller gets back is either an element of the module's own array
\* (the same object, so a write through it is a write to the array) or an
\* object built by the call.
Shared(index) == [kind |-> "shared", index |-> index]
Fresh(value) == [kind |-> "fresh", value |-> value]

\* The fields an object has now, given the array's contents.
FieldsOf(object, scale) ==
  IF object.kind = "shared" THEN scale[object.index] ELSE object.value

\* The index at which the loop of getMMI stops over the array's current
\* contents, from index i on; past the end when no range holds intensityValue.
RECURSIVE ScanIndex(_, _, _)
ScanIndex(scale, intensityValue, i) ==
  IF i > Len(scale) THEN Len(scale)
  ELSE IF Ge(intensityValue, scale[i].minIntensity)
          /\ Lt(intensityValue, scale[i].maxIntensity)
  THEN i
  ELSE ScanIndex(scale, intensityValue, i + 1)

\* getMMI as to which object it returns: MMI_SCALE[0] itself on the edge
\* case, a spread copy otherwise.
getMMIObject(scale, intensityValue) ==
  IF Lt(intensityValue, 0) \/ isNaN(intensityValue)
  THEN Shared(1)
  ELSE Fresh(WithIntensity(scale[ScanIndex(scale, intensityValue, 1)], intensityValue))

\* MMI_SCALE.map(level => ({ ...level }))
getMMIScale(scale) == [i \in 1..Len(scale) |-> Fresh(scale[i])]

\* A string is the sequence of its characters.  toUpperCase changes the
\* lower-case letters and leaves every other character as it is.
UpperOf == [i |-> "I", v |-> "V", x |-> "X", a |-> "A", f |-> "F", o |-> "O"]

toUpperCase(str) ==
  [k \in 1..Len(str) |-> IF str[k] \in DOMAIN UpperOf THEN UpperOf[str[k]] ELSE str[k]]

romanMap ==
  [key \in { <<"I">>, <<"I", "I">>, <<"I", "I", "I">>, <<"I", "V">>, <<"V">>,
             <<"V", "I">>, <<"V", "I", "I">>, <<"V", "I", "I", "I">>, <<"I", "X">>,
             <<"X">>, <<"X", "I">>, <<"X", "I", "I">> } |->
     CASE key = <<"I">> -> 1
       [] key = <<"I", "I">> -> 2
       [] key = <<"I", "I", "I">> -> 3
       [] key = <<"I", "V">> -> 4
       [] key = <<"V">> -> 5
       [] key = <<"V", "I">> -> 6
       [] key = <<"V", "I", "I">> -> 7
       [] key = <<"V", "I", "I", "I">> -> 8
       [] key = <<"I", "X">> -> 9
       [] key = <<"X">> -> 10
       [] key = <<"X", "I">> -> 11
       [] key = <<"X", "I", "I">> -> 12]

\* romanMap[key] || 1
RomanLookup(key) == IF key \in DOMAIN romanMap THEN romanMap[key] * Scale ELSE Scale

romanToNumeric(roman) == RomanLookup(toUpperCase(roman))

\* MMI_SCALE.find(l => l.numericLevel === numericLevel), as the index found
\* from i on; 0 when no level has that number.
RECURSIVE FindLevel(_, _)
FindLevel(numericLevel, i) ==
  IF i > Len(MMI_SCALE) THEN 0
  ELSE IF MMI_SCALE[i].numericLevel * Scale = numericLevel THEN i
  ELSE FindLevel(numericLevel, i + 1)

\* if (!level) return null; return { min, max, level }
IntensityRange(i) ==
  IF i = 0 THEN Return(Null)
  ELSE Return([min |-> MMI_SCALE[i].minIntensity, max |-> MMI_SCALE[i].maxIntensity,
               level |-> MMI_SCALE[i].level])

\* mmiLevel is a string, given by its characters, or a number.
getIntensityRangeForMMI(mmiLevel) ==
  IntensityRange(FindLevel(IF mmiLevel.type = "string"
                           THEN romanToNumeric(mmiLevel.chars)
                           ELSE mmiLevel.value, 1))

-----------------------------------------------------------------------------
(* IntensityDisplay.jsx                                                    *)

\* const mmiLevels = [ ... ]: the component's own bands
mmiLevels == <<
  [level |-> "I", min |-> 0, max |-> 1500],
  [level |-> "II", min |-> 1500, max |-> 2500],
  [level |-> "III", min |-> 2500, max |-> 3500],
  [level |-> "IV", min |-> 3500, max |-> 4500],
  [level |-> "V", min |-> 4500, max |-> 5500],
  [level |-> "VI", min |-> 5500, max |-> 6500],
  [level |-> "VII", min |-> 6500, max |-> 7500],
  [level |-> "VIII", min |-> 7500, max |-> 8500],
  [level |-> "IX", min |-> 8500, max |-> 9500],
  [level |-> "X", min |-> 9500, max |-> 10500],
  [level |-> "XI", min |-> 10500, max |-> 11500],
  [level |-> "XII", min |-> 11500, max |-> 99000] >>

\* A band that is open below and closed above.
isActive_ClosedAbove(intensity, level) ==
  Gt(intensity, level.min) /\ Le(intensity, level.max)

\* const isActive = intensity >= level.min && intensity < level.max
isActive(intensity, level) ==
  Ge(intensity, level.min) /\ Lt(intensity, level.max)

\* mmiLevels.map(...): the levels of the cells given the class 'active'
RECURSIVE ActiveCells(_, _)
ActiveCells(intensity, k) ==
  IF k > Len(mmiLevels) THEN <<>>
  ELSE (IF isActive(intensity, mmiLevels[k]) THEN <<mmiLevels[k].level>> ELSE <<>>)
         \o ActiveCells(intensity, k + 1)

\* What a render shows: the active cells of the gauge and the level of the
\* mmi prop in the current-MMI box.
IntensityDisplay(intensity, mmi) ==
  [active |-> ActiveCells(intensity, 1), roman |-> mmi.level]

\* <IntensityDisplay intensity={results.intensityValue} mmi={results.mmi} />
\* with the props the results effect builds from an intensity.
DisplayOf(intensity) == IntensityDisplay(intensity, getMMI(intensity))

\* The same after calculateIntensity: its exception leaves nothing rendered.
DisplayAfter(intensity) ==
  IF IsError(intensity) THEN intensity ELSE Return(DisplayOf(intensity.value))

-----------------------------------------------------------------------------
(* damageModel.js                                                          *)

DAMAGE_PARAMETERS == [k |-> 1500, threshold |-> 6000]

Hundred == 100000

\* -k * (intensityValue - threshold)
LogisticArgument(intensityValue) ==
  IF ~IsFinite(intensityValue) THEN -intensityValue
  ELSE Mul(-DAMAGE_PARAMETERS.k, intensityValue - DAMAGE_PARAMETERS.threshold)

\* estimateDamage whose guard tests isNaN only.
estimateDamage_NoNegativeGuard(intensityValue) ==
  IF isNaN(intensityValue)
  THEN 0
  ELSE MathMax(0, MathMin(Hundred, Logistic100(LogisticArgument(intensityValue))))

estimateDamage(intensityValue) ==
  IF Lt(intensityValue, 0) \/ isNaN(intensityValue)
  THEN 0
  ELSE MathMax(0, MathMin(Hundred, Logistic100(LogisticArgument(intensityValue))))

\* The record getDamageCategory returns.
DamageCategory(category, description, color, severity) ==
  [category |-> category, description |-> description, color |-> color,
   severity |-> severity]

\* getDamageCategory with <= in place of < at each threshold.
getDamageCategory_ClosedAbove(damagePercent) ==
  IF Le(damagePercent, 5000)
  THEN DamageCategory("None", "No significant damage expected", "#10B981", 0)
  ELSE IF Le(damagePercent, 15000)
  THEN DamageCategory("Very Light", "Minor cosmetic damage, no structural issues",
                      "#84CC16", 1)
  ELSE IF Le(damagePercent, 30000)
  THEN DamageCategory("Light", "Some cracks in walls, minor damage to chimneys",
                      "#FDE047", 2)
  ELSE IF Le(damagePercent, 50000)
  THEN DamageCategory("Moderate",
                      "Damage to chimneys, plaster falls, some structural damage",
                      "#FB923C", 3)
  ELSE IF Le(damagePercent, 70000)
  THEN DamageCategory("Heavy",
                      "Significant structural damage, partial collapse possible",
                      "#F87171", 4)
  ELSE DamageCategory("Very Heavy", "Severe structural damage, widespread collapse",
                      "#DC2626", 5)

getDamageCategory(damagePercent) ==
  IF Lt(damagePercent, 5000)
  THEN DamageCategory("None", "No significant damage expected", "#10B981", 0)
  ELSE IF Lt(damagePercent, 15000)
  THEN DamageCategory("Very Light", "Minor cosmetic damage, no structural issues",
                      "#84CC16", 1)
  ELSE IF Lt(damagePercent, 30000)
  THEN DamageCategory("Light", "Some cracks in walls, minor damage to chimneys",
                      "#FDE047", 2)
  ELSE IF Lt(damagePercent, 50000)
  THEN DamageCategory("Moderate",
                      "Damage to chimneys, plaster falls, some structural damage",
                      "#FB923C", 3)
  ELSE IF Lt(damagePercent, 70000)
  THEN DamageCategory("Heavy",
                      "Significant structural damage, partial collapse possible",
                      "#F87171", 4)
  ELSE DamageCategory("Very Heavy", "Severe structural damage, widespread collapse",
                      "#DC2626", 5)

AffectedFactor == 1200
DisplacementOnset == 40000
DisplacementSpan == 60000

\* estimateAffectedPopulation without Math.max(0, ...) on displacementFactor.
estimateAffectedPopulation_NoOnset(totalPopulation, damagePercent) ==
  IF Lt(totalPopulation, 0) \/ Lt(damagePercent, 0)
  THEN [total |-> 0, affected |-> 0, displaced |-> 0, percentAffected |-> 0]
  ELSE LET affectedPercent == MathMin(Mul(damagePercent, AffectedFactor), Hundred)
           affected == MathRound(MulDiv(totalPopulation, affectedPercent, Hundred))
           displacementFactor == Div(damagePercent - DisplacementOnset, DisplacementSpan)
           displaced == MathRound(Mul(affected, displacementFactor))
       IN  [total |-> totalPopulation,
            affected |-> affected,
            displaced |-> displaced,
            percentAffected |-> MathRound(affectedPercent * 10) \div 10]

\* estimateAffectedPopulation without Math.min(..., 100) on affectedPercent.
estimateAffectedPopulation_NoCap(totalPopulation, damagePercent) ==
  IF Lt(totalPopulation, 0) \/ Lt(damagePercent, 0)
  THEN [total |-> 0, affected |-> 0, displaced |-> 0, percentAffected |-> 0]
  ELSE LET affectedPercent == Mul(damagePercent, AffectedFactor)
           affected == MathRound(MulDiv(totalPopulation, affectedPercent, Hundred))
           displacementFactor ==
             MathMax(0, Div(damagePercent - DisplacementOnset, DisplacementSpan))
           displaced == MathRound(Mul(affected, displacementFactor))
       IN  [total |-> totalPopulation,
            affected |-> affected,
            displaced |-> displaced,
            percentAffected |-> MathRound(affectedPercent * 10) \div 10]

estimateAffectedPopulation(totalPopulation, damagePercent) ==
  IF Lt(totalPopulation, 0) \/ Lt(damagePercent, 0)
  THEN [total |-> 0, affected |-> 0, displaced |-> 0, percentAffected |-> 0]
  ELSE LET affectedPercent == MathMin(Mul(damagePercent, AffectedFactor), Hundred)
           \* (totalPopulation * affectedPercent) / 100, in one step
           affected == MathRound(MulDiv(totalPopulation, affectedPercent, Hundred))
           displacementFactor ==
             MathMax(0, Div(damagePercent - DisplacementOnset, DisplacementSpan))
           displaced == MathRound(Mul(affected, displacementFactor))
       IN  [total |-> totalPopulation,
            affected |-> affected,
            displaced |-> displaced,
            percentAffected |-> MathRound(affectedPercent * 10) \div 10]

\* x / y of JavaScript numbers, division by zero, infinities and NaN included.
Quot(x, y) ==
  IF x = NaN \/ y = NaN THEN NaN
  ELSE IF IsFinite(x) /\ IsFinite(y)
  THEN IF y # 0 THEN Div(x, y)
       ELSE IF x = 0 THEN NaN ELSE IF x > 0 THEN PosInf ELSE NegInf
  ELSE IF IsFinite(x) THEN 0
  ELSE IF ~IsFinite(y) THEN NaN
  ELSE IF Sign(x) = Sign(y) THEN PosInf
  ELSE NegInf

Ln10 == 2302585
LossExponent == 1300

\* e^(1.3 * ln(r)) for finite r >= 1
PowAboveOne(r) == ExpPos(MulDiv(Mul(LossExponent, Log10(r)), Ln10, Micro))

\* Math.pow(x, 1.3): NaN for a negative base, 0 at 0; below 1 it is formed as
\* 1 / (1/x)^1.3.
MathPowLoss(x) ==
  IF x = NaN \/ x < 0 THEN NaN
  ELSE IF x = 0 \/ x = PosInf THEN x
  ELSE IF x >= Scale THEN PowAboveOne(x)
  ELSE Quot(Scale, PowAboveOne(Div(Scale, x)))

BuildingValueFactor == 3000
IndirectLossFactor == 300
DefaultGdpPerCapita == 15000000

\* The record estimateEconomicLoss returns, from directLoss, indirectLoss and
\* totalPopulation * gdpPerCapita.
EconomicLossRecord(directLoss, indirectLoss, gdp) ==
  [directLoss |-> MathRound(directLoss),
   indirectLoss |-> MathRound(indirectLoss),
   totalLoss |-> MathRound(Plus(directLoss, indirectLoss)),
   percentOfGDP |->
     Quot(MathRound(Times(Quot(Plus(directLoss, indirectLoss), gdp), 1000 * Scale)),
          10 * Scale)]

\* directLoss = totalBuildingValue * lossFactor; indirectLoss = directLoss * 0.3
EconomicLossFrom(directLoss, gdp) ==
  EconomicLossRecord(directLoss, Times(directLoss, IndirectLossFactor), gdp)

\* Math.pow(damagePercent / 100, 1.3); a negative quotient too small for the
\* fixed-point scale is still a negative base.
LossFactor(damagePercent) ==
  IF damagePercent # NaN /\ damagePercent < 0 THEN NaN
  ELSE MathPowLoss(Quot(damagePercent, Hundred))

estimateEconomicLoss(damagePercent, totalPopulation, gdpPerCapita) ==
  EconomicLossFrom(
    Times(Times(totalPopulation, Times(gdpPerCapita, BuildingValueFactor)),
          LossFactor(damagePercent)),
    Times(totalPopulation, gdpPerCapita))

ModernFactor == 400
UnreinforcedFactor == 1600
InformalFactor == 2000

\* The breakdown getBuildingDamageByType builds from baseDamage.
BuildingDamage(baseDamage) ==
  [modern |-> [type |-> "Modern/Engineered",
               damage |-> MathMax(0, Times(baseDamage, ModernFactor)),
               description |-> "Reinforced concrete, seismic design"],
   standard |-> [type |-> "Standard Construction",
                 damage |-> baseDamage,
                 description |-> "Well-built ordinary structures"],
   unreinforced |-> [type |-> "Unreinforced Masonry",
                     damage |-> MathMin(Hundred, Times(baseDamage, UnreinforcedFactor)),
                     description |-> "Older buildings, no seismic design"],
   informal |-> [type |-> "Informal Construction",
                 damage |-> MathMin(Hundred, Times(baseDamage, InformalFactor)),
                 description |-> "Poor quality, non-engineered"]]

getBuildingDamageByType(intensityValue) == BuildingDamage(estimateDamage(intensityValue))

CasualtyOnset == 60000
CasualtySpan == 40000
HundredMicro == 100000000

\* Math.pow((damagePercent - 60) / 40, 2), in millionths
CasualtyRatioSquared(damagePercent) ==
  MulMicro(Abs(MulDiv(damagePercent - CasualtyOnset, Micro, CasualtySpan)),
           Abs(MulDiv(damagePercent - CasualtyOnset, Micro, CasualtySpan)))

\* { low, medium, high } from estimated = Math.round(totalPopulation * fatalityRate)
CasualtyRecord(estimated) ==
  [low |-> MathRound(MulDiv(estimated, 500, Scale)),
   medium |-> estimated,
   high |-> MathRound(estimated * 2),
   description |-> "Estimated casualties (very rough approximation)"]

\* estimateCasualtyRisk without the early return below 60 percent.
estimateCasualtyRisk_NoThreshold(totalPopulation, damagePercent) ==
  CasualtyRecord(
    MathRound(MulDiv(totalPopulation, CasualtyRatioSquared(damagePercent), HundredMicro)))

estimateCasualtyRisk(totalPopulation, damagePercent) ==
  IF Lt(damagePercent, CasualtyOnset)
  THEN [low |-> 0, medium |-> 0, high |-> 0,
        description |-> "Casualties unlikely at this damage level"]
  ELSE CasualtyRecord(
         MathRound(MulDiv(totalPopulation, CasualtyRatioSquared(damagePercent), HundredMicro)))

\* The function passed as the calculateIntensity argument: the attenuation
\* model's own, or a stub that returns the same intensity for every scenario.
ApplyIntensity(intensityFn, M, h, distance) ==
  IF intensityFn = "calculateIntensity" THEN calculateIntensity(M, h, distance)
  ELSE Return(7200)

\* { scenarioId: index + 1, ...scenario, intensity, damage, category, severity }:
\* a key written later replaces the same key written earlier.
ScenarioResult(scenario, scenarioId, intensity, damage, category) ==
  [intensity |-> intensity, damage |-> damage,
   category |-> category.category, severity |-> category.severity]
    @@ scenario @@ [scenarioId |-> scenarioId]

ScenarioDamage(scenario, scenarioId, intensity, damage) ==
  ScenarioResult(scenario, scenarioId, intensity, damage, getDamageCategory(damage))

\* The callback of scenarios.map, given what the intensity function returned.
MapScenario(scenario, scenarioId, intensity) ==
  ScenarioDamage(scenario, scenarioId, intensity, estimateDamage(intensity))

\* The callback with the call of the intensity function in a try/catch that
\* yields null.
MapCallback_Caught(scenario, scenarioId, outcome) ==
  IF IsError(outcome) THEN Return(Null)
  ELSE Return(MapScenario(scenario, scenarioId, outcome.value))

\* The callback of scenarios.map on one scenario, given what the intensity
\* function did: its exception is the callback's, its value goes into the
\* result object.
MapCallback(scenario, scenarioId, outcome) ==
  IF IsError(outcome) THEN outcome
  ELSE Return(MapScenario(scenario, scenarioId, outcome.value))

\* What the intensity function does on each scenario, in order.
ScenarioIntensities(scenarios, intensityFn) ==
  [i \in 1..Len(scenarios) |->
     ApplyIntensity(intensityFn, scenarios[i].magnitude, scenarios[i].depth,
                    scenarios[i].distance)]

\* The first exception among the outcomes from index i on.
RECURSIVE FirstError(_, _)
FirstError(outcomes, i) ==
  IF IsError(outcomes[i]) THEN outcomes[i] ELSE FirstError(outcomes, i + 1)

\* scenarios.map(...): an exception of the intensity function ends the map.
MapScenarios(scenarios, outcomes) ==
  IF \E i \in 1..Len(outcomes) : IsError(outcomes[i])
  THEN FirstError(outcomes, 1)
  ELSE Return([i \in 1..Len(scenarios) |->
                 MapScenario(scenarios[i], i, outcomes[i].value)])

compareDamageScenarios(scenarios, intensityFn) ==
  MapScenarios(scenarios, ScenarioIntensities(scenarios, intensityFn))

\* getModelParameters handing out the module's own object.
getModelParameters_Shared(constants) == Shared("attenuation")

\* return { ...ATTENUATION_CONSTANTS }
getModelParameters(constants) == Fresh(constants)

\* return { ...DAMAGE_PARAMETERS }
getDamageParameters(damageParameters) == Fresh(damageParameters)

\* The formula of calculateIntensity over the constants as they are now:
\* const { a, b, c, d } = ATTENUATION_CONSTANTS
AttenuationFormulaWith(constants, M, R) ==
  Minus(Minus(Plus(constants.a, Times(constants.b, M)),
              Times(constants.c, MathLog10(R))),
        Times(constants.d, R))

calculateIntensityWith(constants, M, h, distance) ==
  IF IsError(calculateIntensity(M, h, distance))
  THEN calculateIntensity(M, h, distance)
  ELSE Return(MathMax(AttenuationFormulaWith(constants, M, AttenuationR(h, distance)), 0))

\* estimateDamage over the parameters as they are now:
\* const { k, threshold } = DAMAGE_PARAMETERS
estimateDamageWith(damageParameters, intensityValue) ==
  IF Lt(intensityValue, 0) \/ isNaN(intensityValue)
  THEN 0
  ELSE MathMax(0, MathMin(Hundred, Logistic100(
         IF ~IsFinite(intensityValue) THEN -intensityValue
         ELSE Mul(-damageParameters.k, intensityValue - damageParameters.threshold))))

-----------------------------------------------------------------------------
(* geoUtils.js                                                             *)
(* Latitudes and longitudes are in thousandths of a degree, angles in      *)
(* millionths of a radian, sines and cosines in millionths, and the        *)
(* haversine term a in billionths, so that a few hundred metres survive.   *)

EARTH_RADIUS_KM == 6371

Pi == 3141593
HalfCircle == 180000
Nano == 1000000000
TrigTerms == 23

toRadians(degrees) == MulDiv(degrees, Pi, HalfCircle)

\* Sum of the series term - term*x2/(k(k+1)) + ..., x2 the squared angle.
RECURSIVE TrigSeries(_, _, _)
TrigSeries(term, x2, k) ==
  IF k > TrigTerms \/ term = 0 THEN 0
  ELSE LET next == -MulDiv(MulDiv(term, x2, Micro), 1, k * (k + 1))
       IN  next + TrigSeries(next, x2, k + 2)

Clamp(x, lo, hi) == IF x < lo THEN lo ELSE IF x > hi THEN hi ELSE x

\* Math.sin and Math.cos for |x| <= Pi; neither leaves [-1, 1].
MathSin(x) == Clamp(x + TrigSeries(x, MulDiv(x, x, Micro), 2), -Micro, Micro)
MathCos(x) == Clamp(Micro + TrigSeries(Micro, MulDiv(x, x, Micro), 1), -Micro, Micro)

\* Math.sqrt of a number in [0, 1], from billionths to millionths: the
\* largest r in [lo, hi) with r*r <= a.
RECURSIVE SqrtUnitIter(_, _, _)
SqrtUnitIter(a, lo, hi) ==
  IF hi - lo <= 1 THEN lo
  ELSE LET mid == (lo + hi) \div 2
           sq == MulDivSmall(mid, mid, Scale)
           rest == ((mid % Scale) * (mid % Scale)) % Scale
       IN  IF sq + (IF rest > 0 THEN 1 ELSE 0) <= a
           THEN SqrtUnitIter(a, mid, hi) ELSE SqrtUnitIter(a, lo, mid)

SqrtUnit(a) == IF a < 0 THEN NaN ELSE SqrtUnitIter(a, 0, Micro + 1)

\* Math.sqrt of a number in [1, 4], in millionths: the largest r in
\* [lo, hi) with r*r <= v.
RECURSIVE SqrtMicroIter(_, _, _)
SqrtMicroIter(v, lo, hi) ==
  IF hi - lo <= 1 THEN lo
  ELSE LET mid == (lo + hi) \div 2
       IN  IF MulMicro(mid, mid) <= v
           THEN SqrtMicroIter(v, mid, hi) ELSE SqrtMicroIter(v, lo, mid)

SqrtMicro(v) == SqrtMicroIter(v, Micro, 2 * Micro + 1)

\* tan(x/2) from t = tan(x): t / (1 + sqrt(1 + t*t)).
HalfAngleTan(t) == MulDiv(t, Micro, Micro + SqrtMicro(Micro + MulMicro(t, t)))

AtanTerms == 15

\* Terms -t^3/3 + t^5/5 - ... of the arctangent series, given power = t^(k-2).
RECURSIVE AtanSeries(_, _, _)
AtanSeries(power, t2, k) ==
  IF k > AtanTerms \/ power = 0 THEN 0
  ELSE LET next == -MulDiv(power, t2, Micro)
       IN  (next \div k) + AtanSeries(next, t2, k + 2)

\* Math.atan(t) for 0 <= t <= 1: halve the angle twice, sum the series.
MathAtan(t) ==
  LET u == HalfAngleTan(HalfAngleTan(t))
  IN  4 * (u + AtanSeries(u, MulMicro(u, u), 3))

\* Math.atan2(y, x) for x, y >= 0, not both 0.
MathAtan2(y, x) ==
  IF y = NaN \/ x = NaN THEN NaN
  ELSE IF y <= x THEN MathAtan(MulDiv(y, Micro, x))
  ELSE (Pi \div 2) - MathAtan(MulDiv(x, Micro, y))

\* a = sin^2(dPhi/2) + cos(phi1) cos(phi2) sin^2(dLambda/2), in billionths
HaversineA(sinPhi, sinLambda, cosPhi1, cosPhi2) ==
  MulDiv(sinPhi, sinPhi, Scale)
  + MulDiv(MulDiv(cosPhi1, cosPhi2, Micro), MulDiv(sinLambda, sinLambda, Scale), Micro)

\* c / 2 = atan2(sqrt(a), sqrt(1 - a))
HaversineHalfC(a) == MathAtan2(SqrtUnit(a), SqrtUnit(Nano - a))

\* EARTH_RADIUS_KM * c
ArcLength(halfC) ==
  IF halfC = NaN THEN NaN
  ELSE MulDiv(EARTH_RADIUS_KM * Scale, 2 * halfC, Micro)

calculateDistance(lat1, lon1, lat2, lon2) ==
  ArcLength(HaversineHalfC(HaversineA(MathSin(toRadians(lat2 - lat1) \div 2),
                                      MathSin(toRadians(lon2 - lon1) \div 2),
                                      MathCos(toRadians(lat1)),
                                      MathCos(toRadians(lat2)))))

\* calculateHypocentralDistance returning the horizontal distance alone.
calculateHypocentralDistance_SurfaceOnly(epicenterLat, epicenterLon, siteLat, siteLon, h) ==
  calculateDistance(epicenterLat, epicenterLon, siteLat, siteLon)

calculateHypocentralDistance(epicenterLat, epicenterLon, siteLat, siteLon, h) ==
  SqrtSumSquares(calculateDistance(epicenterLat, epicenterLon, siteLat, siteLon), h)

-----
(* App.jsx                                                                 *)

\* The lookup falling back on the last city of the list.
RECURSIVE FindCity_Last(_, _, _)
FindCity_Last(cs, name, i) ==
  IF i > Len(cs) THEN cs[Len(cs)]
  ELSE IF cs[i].city = name THEN cs[i]
  ELSE FindCity_Last(cs, name, i + 1)

\* cities.find(c => c.city === selectedCity) || cities[0]
RECURSIVE FindCity(_, _, _)
FindCity(cs, name, i) ==
  IF i > Len(cs) THEN cs[1]
  ELSE IF cs[i].city = name THEN cs[i]
  ELSE FindCity(cs, name, i + 1)

\* setResults({ city, distance, intensityValue, mmi, damagePercent, affectedPop })
ResultsRecord(city, distance, intensityValue, damagePercent) ==
  [kind |-> "results",
   city |-> city.city,
   distance |-> distance,
   intensityValue |-> intensityValue,
   mmi |-> getMMI(intensityValue),
   damagePercent |-> damagePercent,
   affectedPop |-> estimateAffectedPopulation(city.population, damagePercent)]

\* An exception of calculateIntensity is not caught by the effect.
ResultsFromIntensity(city, distance, intensity) ==
  IF IsError(intensity)
  THEN [kind |-> "uncaught", error |-> intensity]
  ELSE ResultsRecord(city, distance, intensity.value, estimateDamage(intensity.value))

\* calculateIntensity(magnitude, depth, distance): the distance handed over
\* is the one calculateHypocentralDistance returned.
ResultsAtDistance(city, M, h, distance) ==
  ResultsFromIntensity(city, distance, calculateIntensity(M, h, distance))

ResultsForCity(city, M, h, epi) ==
  ResultsAtDistance(city, M, h,
    calculateHypocentralDistance(epi.lat, epi.lon, city.lat, city.lon, h))

\* The effect on [magnitude, depth, epicenter, selectedCity, cities]: the
\* value of results after it has run, given the value before.
ResultsEffect(prev, M, h, epi, selected, cs) ==
  IF Len(cs) = 0 THEN prev
  ELSE ResultsForCity(FindCity(cs, selected, 1), M, h, epi)

-----
(* Inputs                                                                  *)

MagnitudeStep == 1000
MaxMagnitudeSteps == 11
DistanceStep == 250000
MaxDistanceSteps == 20
IntensityStep == 100
MaxIntensitySteps == 150
PercentStep == 5000
MaxPercentSteps == 24

Specials == {NaN, PosInf, NegInf}

MagnitudeInputs ==
  {i * MagnitudeStep : i \in 0..MaxMagnitudeSteps}
    \cup {-MagnitudeStep, -1, MaxMagnitude + 1, 5500, 7500, 8800} \cup Specials

DepthInputs ==
  {0, 500, 1000, 5000, 20000, 30000, 35000, 100000, MaxDepth}
    \cup {-1, MaxDepth + 1} \cup Specials

DistanceInputs ==
  {i * DistanceStep : i \in 0..MaxDistanceSteps}
    \cup {500, 1000, 2000, 10000, 50000, 335000} \cup {-1} \cup Specials

BandEdges == {MMI_SCALE[i].minIntensity : i \in 1..Len(MMI_SCALE)}

IntensityInputs ==
  {i * IntensityStep : i \in -3..MaxIntensitySteps}
    \cup BandEdges \cup {e - 1 : e \in BandEdges} \cup {e + 1 : e \in BandEdges}
    \cup {-5000, 7200} \cup Specials

PopulationInputs == {-1500000, -1000, 0, 600, 1000, 3000, 7000, 296655, 1500000}

\* The thresholds getDamageCategory compares with.
CategoryThresholds == {5000, 15000, 30000, 50000, 70000}

PercentInputs ==
  {i * PercentStep : i \in 0..MaxPercentSteps}
    \cup {-1, 1, 39999, 40001, 41000, 59999, 83333, 83334, 99999, 100001, 160000}
    \cup {40000, 60000, 100000}
    \cup CategoryThresholds \cup {t - 1 : t \in CategoryThresholds}
    \cup {t + 1 : t \in CategoryThresholds}

\* Head counts small enough for the losses to stay in range.
SmallPopulations == {-1000, 0, 1000, 3000, 7000}

GdpInputs == {DefaultGdpPerCapita, 1000000}

\* Arguments of estimateFeltRadius: events inside and outside the valid
\* ranges, targets below, inside and above what the model can produce.
FeltMagnitudes == {-1000, 0, 5500, 7500, 8800, MaxMagnitude, NaN}
FeltDepths == {0, 35000, MaxDepth, MaxDepth + 1}
FeltTargets == {-1000, 0, DefaultTargetIntensity, 6000, 12000} \cup Specials

MaxHeld == 2

\* Intensities for the calls a caller makes while holding earlier results
HeldIntensities == {-1000, NaN, 500, 7200, 13000}

\* Elements of the array getMMIScale returned that the caller keeps
KeptLevels == {1, 12}

\* Assignments a caller makes to an object it holds: field and new value
CallerWrites == [name |-> "changed", maxIntensity |-> 0]

\* Assignments a caller makes to a parameter object it holds
ParameterWrites == [a |-> 0, d |-> 0, k |-> 3000, threshold |-> 0]

\* Calls made while the caller holds parameter objects
ParameterEvents ==
  { [magnitude |-> 8800, depth |-> 35000, distance |-> 335000],
    [magnitude |-> 5500, depth |-> 20000, distance |-> 50000] }
ParameterIntensities == {5000, 7200}

MaxScenarios == 3

\* Scenario records: the three documented fields, and records that carry
\* further fields of their own.
ScenarioInputs ==
  { [magnitude |-> 8800, depth |-> 35000, distance |-> 335000],
    [magnitude |-> 6500, depth |-> 20000, distance |-> 50000, name |-> "near"],
    [magnitude |-> 7500, depth |-> 35000, distance |-> 0, scenarioId |-> 7],
    [magnitude |-> 9500, depth |-> 33000, distance |-> 10000, intensity |-> 1000,
     severity |-> 0],
    [magnitude |-> 11000, depth |-> 35000, distance |-> 100000],
    [magnitude |-> 7500, depth |-> 35000, distance |-> -1000] }

RECURSIVE SeqsUpTo(_, _)
SeqsUpTo(S, n) ==
  IF n = 0 THEN {<<>>}
  ELSE SeqsUpTo(S, n - 1)
         \cup {Append(q, x) : q \in {p \in SeqsUpTo(S, n - 1) : Len(p) = n - 1}, x \in S}

ScenarioLists == SeqsUpTo(ScenarioInputs, MaxScenarios)

\* Arguments of getIntensityRangeForMMI: the twelve numerals in upper, lower
\* and mixed case, strings that are no numeral of the scale, and numbers
\* inside and outside 1..12.
Lowered(str) ==
  [k \in 1..Len(str) |-> CASE str[k] = "I" -> "i" [] str[k] = "V" -> "v"
                            [] str[k] = "X" -> "x" [] OTHER -> str[k]]
MixedCase(str) == [k \in 1..Len(str) |-> IF k % 2 = 1 THEN Lowered(str)[k] ELSE str[k]]

LevelStrings ==
  DOMAIN romanMap \cup {Lowered(r) : r \in DOMAIN romanMap}
    \cup {MixedCase(r) : r \in DOMAIN romanMap}
    \cup { <<>>, <<"X", "I", "I", "I">>, <<"I", "I", "I", "I">>, <<"f", "o", "o">>,
           <<"7">>, <<" ", "V">>, <<"0">>, <<"V", "X">>, <<"a">> }

LevelNumbers ==
  {n * Scale : n \in 0..13} \cup {-Scale, 1500, 7001, 100 * Scale} \cup Specials

LevelInputs ==
  {[type |-> "string", chars |-> str] : str \in LevelStrings}
    \cup {[type |-> "number", value |-> n] : n \in LevelNumbers}

\* Rows of cities.csv: {city, lat, lon, population}.
Santiago == [city |-> "Santiago", lat |-> -33449, lon |-> -70669, population |-> 1500000000]
Valparaiso == [city |-> "Valparaiso", lat |-> -33047, lon |-> -71613, population |-> 296655000]
Concepcion == [city |-> "Concepcion", lat |-> -36827, lon |-> -73050, population |-> 223574000]

CityLists ==
  { <<Santiago, Valparaiso, Concepcion>>, <<Valparaiso, Concepcion>>, <<>> }

\* Places a click or a drag can put the epicenter.
MapPoints ==
  { [lat |-> -33449, lon |-> -70669],
    [lat |-> -35846, lon |-> -72719],
    [lat |-> -20214, lon |-> -70152] }

\* Points and depths for calculateHypocentralDistance: the cities, the map
\* points, a point on the equator and one near the far side of the globe.
GeoPoints ==
  MapPoints \cup {[lat |-> c.lat, lon |-> c.lon] : c \in {Valparaiso, Concepcion}}
    \cup {[lat |-> 0, lon |-> 0], [lat |-> 33000, lon |-> 109000]}
GeoDepths == {0, 1, 35000, MaxDepth, 6400000, PosInf, -35000, NaN}

\* ControlPanel.jsx: the two range inputs, of which every SliderStride-th
\* position is tried.
SliderStride == 15
MagnitudeSliderMin == 5000
MagnitudeSliderMax == 9500
MagnitudeSliderStep == 100
DepthSliderMin == 5000
DepthSliderMax == 100000
DepthSliderStep == 5000

SliderPositions(min, max, step) ==
  {v \in {min + i * step * SliderStride : i \in 0..((max - min) \div step)} : v <= max}
    \cup {max}

Presets ==
  { [magnitude |-> 8800, depth |-> 35000],
    [magnitude |-> 9500, depth |-> 33000],
    [magnitude |-> 6500, depth |-> 20000] }

-----------------------------------------------------------------------------
(* The App: data load, user events, and the results effect after each      *)

DefaultEpicenter == [lat |-> -33449, lon |-> -70669]

AppStart ==
  /\ magnitude = 7500
  /\ depth = 35000
  /\ epicenter = DefaultEpicenter
  /\ selectedCity = "Santiago"
  /\ cities = <<>>
  /\ loading = TRUE
  /\ results = Null

NoCall == fn = "App" /\ args = <<>> /\ ret = Pending

\* The module's MMI_SCALE as written, and a caller that holds nothing yet
HeapStart ==
  /\ table = MMI_SCALE
  /\ held = <<>>
  /\ parameters = [attenuation |-> ATTENUATION_CONSTANTS, damage |-> DAMAGE_PARAMETERS]

\* No shake class set and no timeout pending
ShakeIdle == shakeClass = "" /\ timers = <<>>

\* No call of compareDamageScenarios in progress
MapIdle == evaluated = <<>> /\ mapped = <<>>

\* No call of estimateFeltRadius in progress
LoopIdle == minDist = 0 /\ maxDist = 0 /\ iterations = 0

InitApp ==
  pc = "fetchCities" /\ NoCall /\ AppStart /\ HeapStart /\ LoopIdle /\ MapIdle /\ ShakeIdle

\* setCities(parseCSV(citiesText)), then the results effect
FetchCitiesDone(list) ==
  /\ pc = "fetchCities"
  /\ cities' = list
  /\ results' = ResultsEffect(results, magnitude, depth, epicenter, selectedCity, list)
  /\ pc' = "fetchQuakes"
  /\ UNCHANGED <<heapVars, mapVars, loopVars, fn, args, ret, magnitude, depth, epicenter, selectedCity, loading>>

\* setHistoricalQuakes(quakesData); setLoading(false)
FetchQuakesDone ==
  /\ pc = "fetchQuakes"
  /\ loading' = FALSE
  /\ pc' = "loaded"
  /\ UNCHANGED <<heapVars, mapVars, loopVars, fn, args, ret, magnitude, depth, epicenter, selectedCity, cities, results>>

\* catch (error): setLoading(false)
FetchFailed ==
  /\ pc \in {"fetchCities", "fetchQuakes"}
  /\ loading' = FALSE
  /\ pc' = "loaded"
  /\ UNCHANGED <<heapVars, mapVars, loopVars, fn, args, ret, magnitude, depth, epicenter, selectedCity, cities, results>>

\* The controls are rendered once loading is false.
Rendered == pc = "loaded" /\ ~loading /\ results.kind # "uncaught"

OnMagnitudeChange(M) ==
  /\ Rendered
  /\ magnitude' = M
  /\ results' = ResultsEffect(results, M, depth, epicenter, selectedCity, cities)
  /\ UNCHANGED <<heapVars, mapVars, loopVars, callVars, depth, epicenter, selectedCity, cities, loading>>

OnDepthChange(h) ==
  /\ Rendered
  /\ depth' = h
  /\ results' = ResultsEffect(results, magnitude, h, epicenter, selectedCity, cities)
  /\ UNCHANGED <<heapVars, mapVars, loopVars, callVars, magnitude, epicenter, selectedCity, cities, loading>>

\* onMagnitudeChange(...); onDepthChange(...) in one click handler
OnPreset(p) ==
  /\ Rendered
  /\ magnitude' = p.magnitude
  /\ depth' = p.depth
  /\ results' = ResultsEffect(results, p.magnitude, p.depth, epicenter, selectedCity, cities)
  /\ UNCHANGED <<heapVars, mapVars, loopVars, callVars, epicenter, selectedCity, cities, loading>>

OnCityChange(name) ==
  /\ Rendered
  /\ selectedCity' = name
  /\ results' = ResultsEffect(results, magnitude, depth, epicenter, name, cities)
  /\ UNCHANGED <<heapVars, mapVars, loopVars, callVars, magnitude, depth, epicenter, cities, loading>>

OnEpicenterChange(p) ==
  /\ Rendered
  /\ epicenter' = p
  /\ results' = ResultsEffect(results, magnitude, depth, p, selectedCity, cities)
  /\ UNCHANGED <<heapVars, mapVars, loopVars, callVars, magnitude, depth, selectedCity, cities, loading>>

MapClick == \E p \in MapPoints : OnEpicenterChange(p)
MarkerDragEnd == \E p \in MapPoints : OnEpicenterChange(p)

\* app.jsx has no shake state: the variant's variables stay as they are.
NextApp ==
  \/ \E list \in CityLists : FetchCitiesDone(list) /\ UNCHANGED shakeVars
  \/ FetchQuakesDone /\ UNCHANGED shakeVars
  \/ FetchFailed /\ UNCHANGED shakeVars
  \/ \E M \in SliderPositions(MagnitudeSliderMin, MagnitudeSliderMax, MagnitudeSliderStep) :
       OnMagnitudeChange(M) /\ UNCHANGED shakeVars
  \/ \E h \in SliderPositions(DepthSliderMin, DepthSliderMax, DepthSliderStep) :
       OnDepthChange(h) /\ UNCHANGED shakeVars
  \/ \E p \in Presets : OnPreset(p) /\ UNCHANGED shakeVars
  \/ \E i \in 1..Len(cities) : OnCityChange(cities[i].city) /\ UNCHANGED shakeVars
  \/ MapClick /\ UNCHANGED shakeVars
  \/ MarkerDragEnd /\ UNCHANGED shakeVars

SpecApp == InitApp /\ [][NextApp]_vars

-----------------------------------------------------------------------------
(* The App with the shake animation: the same load and events, then the    *)
(* effect on [results], and the timeouts it starts                         *)

ShakeTimeout == 1500
TickLength == 750

\* const mmiLevel = results.mmi?.numericLevel || 0
ShakeLevel(r) ==
  IF "numericLevel" \in DOMAIN r.mmi /\ r.mmi.numericLevel # 0
  THEN r.mmi.numericLevel
  ELSE 0

ShakeClassFor(mmiLevel) ==
  IF mmiLevel >= 9 THEN "shake-extreme"
  ELSE IF mmiLevel >= 7 THEN "shake-severe"
  ELSE IF mmiLevel >= 5 THEN "shake-strong"
  ELSE IF mmiLevel >= 3 THEN "shake-moderate"
  ELSE IF mmiLevel >= 1 THEN "shake-light"
  ELSE ""

\* The cleanup of the previous run of the effect leaves its timeout running.
clearTimeout_Never(pending) == pending

\* return () => clearTimeout(timer): the previous run's timeout is the one
\* started last; clearing one that has already run changes nothing.
clearTimeout(pending) ==
  IF pending = <<>> THEN <<>> ELSE SubSeq(pending, 1, Len(pending) - 1)

\* if (shake) { setShakeClass(shake); const timer = setTimeout(..., 1500) }
ShakeStart(shake, pending) ==
  IF shake # ""
  THEN shakeClass' = shake /\ timers' = Append(pending, ShakeTimeout)
  ELSE shakeClass' = shakeClass /\ timers' = pending

\* The effect on [results] after an event: it runs when the results effect
\* has run and called setResults, its previous cleanup first.
ShakeEffect(depsChanged) ==
  IF depsChanged /\ Len(cities') > 0 /\ results'.kind = "results"
  THEN ShakeStart(ShakeClassFor(ShakeLevel(results')), clearTimeout(timers))
  ELSE UNCHANGED shakeVars

\* The time that passes in one step: up to the first timeout that is due.
RECURSIVE Elapse(_, _, _)
Elapse(pending, i, least) ==
  IF i > Len(pending) THEN least
  ELSE Elapse(pending, i + 1, IF pending[i] < least THEN pending[i] ELSE least)

TimePasses ==
  /\ timers # <<>>
  /\ \A i \in 1..Len(timers) : timers[i] > 0
  /\ timers' = [i \in 1..Len(timers) |-> timers[i] - Elapse(timers, 1, TickLength)]
  /\ UNCHANGED <<shakeClass, appVars, callVars, heapVars, loopVars, mapVars>>

\* () => setShakeClass('') of the timeout at position i
TimerFires(i) ==
  /\ timers[i] = 0
  /\ shakeClass' = ""
  /\ timers' = SubSeq(timers, 1, i - 1) \o SubSeq(timers, i + 1, Len(timers))
  /\ UNCHANGED <<appVars, callVars, heapVars, loopVars, mapVars>>

\* A state setter called with the value the state has does not re-render;
\* setEpicenter and setCities are handed a new object every time.
NextShake ==
  \/ \E list \in CityLists : FetchCitiesDone(list) /\ ShakeEffect(TRUE)
  \/ FetchQuakesDone /\ UNCHANGED shakeVars
  \/ FetchFailed /\ UNCHANGED shakeVars
  \/ \E M \in SliderPositions(MagnitudeSliderMin, MagnitudeSliderMax, MagnitudeSliderStep) :
       OnMagnitudeChange(M) /\ ShakeEffect(magnitude' # magnitude)
  \/ \E h \in SliderPositions(DepthSliderMin, DepthSliderMax, DepthSliderStep) :
       OnDepthChange(h) /\ ShakeEffect(depth' # depth)
  \/ \E p \in Presets :
       OnPreset(p) /\ ShakeEffect(magnitude' # magnitude \/ depth' # depth)
  \/ \E i \in 1..Len(cities) :
       OnCityChange(cities[i].city) /\ ShakeEffect(selectedCity' # selectedCity)
  \/ MapClick /\ ShakeEffect(TRUE)
  \/ MarkerDragEnd /\ ShakeEffect(TRUE)
  \/ TimePasses
  \/ \E i \in 1..Len(timers) : TimerFires(i)

SpecShake == InitApp /\ [][NextShake]_vars

-----------------------------------------------------------------------------
(* One call of an exported function on inputs drawn from the sets above    *)

Call(name, result) ==
  /\ pc = "call"
  /\ fn = name
  /\ ret' = result
  /\ pc' = "done"
  /\ UNCHANGED <<heapVars, mapVars, shakeVars, loopVars, fn, args, appVars>>

InitAtten ==
  /\ pc = "call"
  /\ ret = Pending
  /\ AppStart
  /\ HeapStart
  /\ LoopIdle
  /\ MapIdle
  /\ ShakeIdle
  /\ \/ /\ fn = "calculateIntensity"
        /\ args \in [magnitude : MagnitudeInputs, depth : DepthInputs, distance : DistanceInputs]
     \/ /\ fn = "calculateIntensityFromHypocentral"
        /\ args \in [magnitude : MagnitudeInputs, hypocentralDistance : DistanceInputs]
     \/ /\ fn = "getEpicentralIntensity"
        /\ args \in [magnitude : MagnitudeInputs, depth : DepthInputs]
     \/ /\ fn = "validateModel"
        /\ args = <<>>

CallCalculateIntensity ==
  Call("calculateIntensity", calculateIntensity(args.magnitude, args.depth, args.distance))

CallCalculateIntensityFromHypocentral ==
  Call("calculateIntensityFromHypocentral",
       calculateIntensityFromHypocentral(args.magnitude, args.hypocentralDistance))

CallGetEpicentralIntensity ==
  Call("getEpicentralIntensity", getEpicentralIntensity(args.magnitude, args.depth))

CallValidateModel == Call("validateModel", validateModel)

NextAtten ==
  \/ CallCalculateIntensity
  \/ CallCalculateIntensityFromHypocentral
  \/ CallGetEpicentralIntensity
  \/ CallValidateModel

SpecAtten == InitAtten /\ [][NextAtten]_vars

InitMMI ==
  /\ pc = "call"
  /\ ret = Pending
  /\ AppStart
  /\ HeapStart
  /\ LoopIdle
  /\ MapIdle
  /\ ShakeIdle
  /\ \/ /\ fn = "getMMI"
        /\ args \in [intensityValue : IntensityInputs]
     \/ /\ fn = "getIntensityRangeForMMI"
        /\ args \in [mmiLevel : LevelInputs]

CallGetMMI == Call("getMMI", getMMI(args.intensityValue))

CallGetIntensityRangeForMMI ==
  Call("getIntensityRangeForMMI", getIntensityRangeForMMI(args.mmiLevel))

NextMMI == CallGetMMI \/ CallGetIntensityRangeForMMI

SpecMMI == InitMMI /\ [][NextMMI]_vars

InitDamage ==
  /\ pc = "call"
  /\ ret = Pending
  /\ AppStart
  /\ HeapStart
  /\ LoopIdle
  /\ MapIdle
  /\ ShakeIdle
  /\ \/ /\ fn = "estimateDamage"
        /\ args \in [intensityValue : IntensityInputs]
     \/ /\ fn = "estimateAffectedPopulation"
        /\ args \in [totalPopulation : PopulationInputs, damagePercent : PercentInputs]
     \/ /\ fn = "getBuildingDamageByType"
        /\ args \in [intensityValue : IntensityInputs]
     \/ /\ fn = "estimateCasualtyRisk"
        /\ args \in [totalPopulation : PopulationInputs, damagePercent : PercentInputs]
     \/ /\ fn = "getDamageCategory"
        /\ args \in [damagePercent : PercentInputs \cup Specials]
     \/ /\ fn = "compareDamageScenarios"
        /\ args \in [scenarios : ScenarioLists,
                     calculateIntensity : {"calculateIntensity", "stub"}]
     \/ /\ fn = "estimateEconomicLoss"
        /\ args \in [damagePercent : PercentInputs, totalPopulation : SmallPopulations,
                     gdpPerCapita : GdpInputs]

CallEstimateDamage == Call("estimateDamage", estimateDamage(args.intensityValue))

CallEstimateAffectedPopulation ==
  Call("estimateAffectedPopulation",
       estimateAffectedPopulation(args.totalPopulation, args.damagePercent))

CallEstimateEconomicLoss ==
  Call("estimateEconomicLoss",
       estimateEconomicLoss(args.damagePercent, args.totalPopulation, args.gdpPerCapita))

CallGetBuildingDamageByType ==
  Call("getBuildingDamageByType", getBuildingDamageByType(args.intensityValue))

CallEstimateCasualtyRisk ==
  Call("estimateCasualtyRisk",
       estimateCasualtyRisk(args.totalPopulation, args.damagePercent))

CallGetDamageCategory == Call("getDamageCategory", getDamageCategory(args.damagePercent))

CallCompareDamageScenarios ==
  Call("compareDamageScenarios",
       compareDamageScenarios(args.scenarios, args.calculateIntensity))

NextDamage ==
  \/ CallEstimateDamage
  \/ CallEstimateAffectedPopulation
  \/ CallEstimateEconomicLoss
  \/ CallGetBuildingDamageByType
  \/ CallEstimateCasualtyRisk
  \/ CallGetDamageCategory
  \/ CallCompareDamageScenarios

SpecDamage == InitDamage /\ [][NextDamage]_vars

-----------------------------------------------------------------------------
(* A caller of mmiScale.js that keeps what the calls return and writes to  *)
(* it                                                                      *)

InitHeld ==
  pc = "caller" /\ NoCall /\ AppStart /\ HeapStart /\ LoopIdle /\ MapIdle /\ ShakeIdle

\* const mmi = getMMI(intensityValue)
HoldGetMMI(intensityValue) ==
  /\ pc = "caller"
  /\ Len(held) < MaxHeld
  /\ held' = Append(held, getMMIObject(table, intensityValue))
  /\ UNCHANGED <<table, parameters, callVars, appVars, loopVars, mapVars, shakeVars>>

\* const level = getMMIScale()[k]
HoldGetMMIScale(k) ==
  /\ pc = "caller"
  /\ Len(held) < MaxHeld
  /\ held' = Append(held, getMMIScale(table)[k])
  /\ UNCHANGED <<table, parameters, callVars, appVars, loopVars, mapVars, shakeVars>>

\* held[h][field] = value, in the caller
CallerWrite(h, field, value) ==
  /\ pc = "caller"
  /\ h \in 1..Len(held)
  /\ IF held[h].kind = "shared"
     THEN /\ table' = [table EXCEPT ![held[h].index][field] = value]
          /\ UNCHANGED held
     ELSE /\ held' = [held EXCEPT ![h].value[field] = value]
          /\ UNCHANGED table
  /\ UNCHANGED <<parameters, callVars, appVars, loopVars, mapVars, shakeVars>>

NextHeld ==
  \/ \E intensityValue \in HeldIntensities : HoldGetMMI(intensityValue)
  \/ \E k \in KeptLevels : HoldGetMMIScale(k)
  \/ \E h \in 1..MaxHeld, field \in DOMAIN CallerWrites :
       CallerWrite(h, field, CallerWrites[field])

SpecHeld == InitHeld /\ [][NextHeld]_vars

-----------------------------------------------------------------------------
(* estimateFeltRadius, one loop iteration per step                         *)

InitFelt ==
  /\ pc = "call"
  /\ ret = Pending
  /\ AppStart
  /\ HeapStart
  /\ LoopIdle
  /\ MapIdle
  /\ ShakeIdle
  /\ fn = "estimateFeltRadius"
  /\ args \in [magnitude : FeltMagnitudes, depth : FeltDepths,
               targetIntensity : FeltTargets]

\* let minDist = 0; let maxDist = 5000; let iterations = 0
FeltStart ==
  /\ pc = "call"
  /\ fn = "estimateFeltRadius"
  /\ minDist' = 0
  /\ maxDist' = FeltMaxDist
  /\ iterations' = 0
  /\ pc' = "loop"
  /\ UNCHANGED <<fn, args, ret, appVars, heapVars, mapVars, shakeVars>>

\* The loop body once calculateIntensity has run at midDist: its exception
\* leaves the function, its value moves one end of the interval.
FeltBranch(midDist, intensity) ==
  IF IsError(intensity)
  THEN /\ ret' = intensity
       /\ pc' = "done"
       /\ UNCHANGED loopVars
  ELSE /\ IF Gt(intensity.value, args.targetIntensity)
          THEN minDist' = midDist /\ UNCHANGED maxDist
          ELSE maxDist' = midDist /\ UNCHANGED minDist
       /\ iterations' = iterations + 1
       /\ UNCHANGED <<pc, ret>>

FeltBody(midDist) ==
  FeltBranch(midDist, calculateIntensity(args.magnitude, args.depth, midDist))

FeltIterate ==
  /\ pc = "loop"
  /\ LoopContinues(minDist, maxDist, iterations)
  /\ FeltBody(MidDist(minDist, maxDist))
  /\ UNCHANGED <<fn, args, appVars, heapVars, mapVars, shakeVars>>

\* return (minDist + maxDist) / 2
FeltReturn ==
  /\ pc = "loop"
  /\ ~LoopContinues(minDist, maxDist, iterations)
  /\ ret' = Return(MidDist(minDist, maxDist))
  /\ pc' = "done"
  /\ UNCHANGED <<fn, args, appVars, heapVars, mapVars, shakeVars, loopVars>>

NextFelt == FeltStart \/ FeltIterate \/ FeltReturn

SpecFelt == InitFelt /\ [][NextFelt]_vars

-----------------------------------------------------------------------------
(* A caller of getModelParameters and getDamageParameters that keeps what  *)
(* they return, writes to it, and goes on calling the two models           *)

InitParameters ==
  pc = "caller" /\ NoCall /\ AppStart /\ HeapStart /\ LoopIdle /\ MapIdle /\ ShakeIdle

\* What a call made by the caller leaves behind: its name, arguments, value.
CallerCall(name, arguments, value) ==
  /\ pc = "caller"
  /\ fn' = name
  /\ args' = arguments
  /\ ret' = Return(value)
  /\ UNCHANGED <<pc, table, parameters, appVars, loopVars, mapVars, shakeVars>>

HoldParameters(name, object, contents) ==
  /\ Len(held) < MaxHeld
  /\ held' = Append(held, object)
  /\ CallerCall(name, <<>>, FieldsOf(object, contents))

\* const p = getModelParameters()
HoldGetModelParameters ==
  HoldParameters("getModelParameters", getModelParameters(parameters.attenuation),
                 parameters)

\* const p = getDamageParameters()
HoldGetDamageParameters ==
  HoldParameters("getDamageParameters", getDamageParameters(parameters.damage),
                 parameters)

\* held[h][field] = value, in the caller, for a field the object has
ParameterWrite(h, field, value) ==
  /\ pc = "caller"
  /\ h \in 1..Len(held)
  /\ field \in DOMAIN FieldsOf(held[h], parameters)
  /\ IF held[h].kind = "shared"
     THEN /\ parameters' = [parameters EXCEPT ![held[h].index][field] = value]
          /\ UNCHANGED held
     ELSE /\ held' = [held EXCEPT ![h].value[field] = value]
          /\ UNCHANGED parameters
  /\ UNCHANGED <<table, callVars, appVars, loopVars, mapVars, shakeVars>>

CallIntensityLater(e) ==
  /\ CallerCall("calculateIntensity", e,
                calculateIntensityWith(parameters.attenuation, e.magnitude, e.depth,
                                       e.distance).value)
  /\ UNCHANGED held

CallDamageLater(intensityValue) ==
  /\ CallerCall("estimateDamage", [intensityValue |-> intensityValue],
                estimateDamageWith(parameters.damage, intensityValue))
  /\ UNCHANGED held

NextParameters ==
  \/ HoldGetModelParameters
  \/ HoldGetDamageParameters
  \/ \E h \in 1..MaxHeld, field \in DOMAIN ParameterWrites :
       ParameterWrite(h, field, ParameterWrites[field])
  \/ \E e \in ParameterEvents : CallIntensityLater(e)
  \/ \E intensityValue \in ParameterIntensities : CallDamageLater(intensityValue)

SpecParameters == InitParameters /\ [][NextParameters]_vars

-----------------------------------------------------------------------------
(* One call of calculateHypocentralDistance                                *)

InitGeo ==
  /\ pc = "call"
  /\ ret = Pending
  /\ AppStart
  /\ HeapStart
  /\ LoopIdle
  /\ MapIdle
  /\ ShakeIdle
  /\ fn = "calculateHypocentralDistance"
  /\ args \in [epicenter : GeoPoints, site : GeoPoints, depth : GeoDepths]

CallCalculateHypocentralDistance ==
  Call("calculateHypocentralDistance",
       Return(calculateHypocentralDistance(args.epicenter.lat, args.epicenter.lon,
                                           args.site.lat, args.site.lon, args.depth)))

NextGeo == CallCalculateHypocentralDistance

SpecGeo == InitGeo /\ [][NextGeo]_vars

-----------------------------------------------------------------------------
(* compareDamageScenarios, one callback of scenarios.map per step          *)

InitCompare ==
  /\ pc = "call"
  /\ ret = Pending
  /\ AppStart
  /\ HeapStart
  /\ LoopIdle
  /\ MapIdle
  /\ ShakeIdle
  /\ fn = "compareDamageScenarios"
  /\ args \in [scenarios : ScenarioLists,
               calculateIntensity : {"calculateIntensity", "stub"}]

\* map has the callback's outcome for index i: an exception ends the call,
\* a value is stored at i.
MapStore(i, outcome) ==
  /\ evaluated' = Append(evaluated, i)
  /\ IF IsError(outcome)
     THEN ret' = outcome /\ pc' = "done" /\ UNCHANGED mapped
     ELSE mapped' = Append(mapped, outcome.value) /\ UNCHANGED <<pc, ret>>

MapNext(i) ==
  MapStore(i, MapCallback(args.scenarios[i], i,
                          ApplyIntensity(args.calculateIntensity,
                                         args.scenarios[i].magnitude,
                                         args.scenarios[i].depth,
                                         args.scenarios[i].distance)))

\* The next index of scenarios.map
MapIterate ==
  /\ pc = "call"
  /\ fn = "compareDamageScenarios"
  /\ Len(mapped) < Len(args.scenarios)
  /\ MapNext(Len(mapped) + 1)
  /\ UNCHANGED <<fn, args, appVars, heapVars, loopVars, shakeVars>>

\* return scenarios.map(...)
MapReturn ==
  /\ pc = "call"
  /\ fn = "compareDamageScenarios"
  /\ Len(mapped) = Len(args.scenarios)
  /\ ret' = Return(mapped)
  /\ pc' = "done"
  /\ UNCHANGED <<fn, args, appVars, heapVars, loopVars, mapVars, shakeVars>>

NextCompare == MapIterate \/ MapReturn

SpecCompare == InitCompare /\ [][NextCompare]_vars

-----------------------------------------------------------------------------
(* One render of IntensityDisplay, on an intensity or on the intensity of  *)
(* an event                                                                *)

InitDisplay ==
  /\ pc = "call"
  /\ ret = Pending
  /\ AppStart
  /\ HeapStart
  /\ LoopIdle
  /\ MapIdle
  /\ ShakeIdle
  /\ \/ /\ fn = "IntensityDisplay"
        /\ args \in [intensity : IntensityInputs]
     \/ /\ fn = "calculateIntensity"
        /\ args \in [magnitude : MagnitudeInputs, depth : DepthInputs, distance : DistanceInputs]

RenderIntensityDisplay == Call("IntensityDisplay", Return(DisplayOf(args.intensity)))

RenderCalculated ==
  Call("calculateIntensity",
       DisplayAfter(calculateIntensity(args.magnitude, args.depth, args.distance)))

NextDisplay == RenderIntensityDisplay \/ RenderCalculated

SpecDisplay == InitDisplay /\ [][NextDisplay]_vars

Init == InitApp
Next == NextApp
Spec == SpecApp

-----------------------------------------------------------------------------
(* The claims                                                              *)

Done(name) == pc = "done" /\ fn = name

\* x is a number below lo or above hi; NaN is neither.
Outside(x, lo, hi) == x # NaN /\ (x < lo \/ x > hi)
Inside(x, lo, hi) == x # NaN /\ lo <= x /\ x <= hi

\* The city the results effect works on.
ShownCity == FindCity(cities, selectedCity, 1)

\* Great-circle distance between the epicenter and the shown city.
SurfaceDistance ==
  calculateDistance(epicenter.lat, epicenter.lon, ShownCity.lat, ShownCity.lon)

\* C1: whenever the results effect has produced results, the distance R that
\* entered the attenuation formula, max(sqrt(distance^2 + depth^2), 1) for the
\* distance the effect handed to calculateIntensity, equals
\* max(sqrt(surfaceDistance(epicenter, city)^2 + depth^2), 1): depth is counted
\* exactly once.
C1_DepthCountedOnce ==
  results.kind = "results" =>
    AttenuationR(depth, results.distance)
      = MathMax(SqrtSumSquares(SurfaceDistance, depth), 1 * Scale)

\* C2: calculateIntensity(8.8, 35, 335) returns a value in [6.7, 7.7], and
\* getMMI of that value is band VII or VIII.
C2_Calibration ==
  (Done("calculateIntensity")
     /\ args = [magnitude |-> 8800, depth |-> 35000, distance |-> 335000])
  => /\ IsValue(ret)
     /\ 6700 <= ret.value /\ ret.value <= 7700
     /\ getMMI(ret.value).level \in {"VII", "VIII"}

\* C3: calculateIntensity fails, returning no value, whenever magnitude is
\* outside [0,10], or depth is outside [0,700], or distance < 0; the error
\* names the value and the valid range of the first violated check in the
\* order magnitude, depth, distance; and it returns a value whenever all
\* three inputs are inside those ranges.
C3_RejectsOutOfRange ==
  Done("calculateIntensity") =>
    /\ Outside(args.magnitude, 0, 10 * Scale) =>
         ret = Throw("magnitude", args.magnitude, "Must be between 0 and 10.")
    /\ (~Outside(args.magnitude, 0, 10 * Scale) /\ Outside(args.depth, 0, 700 * Scale)) =>
         ret = Throw("depth", args.depth, "Must be between 0 and 700 km.")
    /\ (/\ ~Outside(args.magnitude, 0, 10 * Scale)
        /\ ~Outside(args.depth, 0, 700 * Scale)
        /\ Outside(args.distance, 0, PosInf)) =>
         ret = Throw("distance", args.distance, "Must be non-negative.")
    /\ (/\ Inside(args.magnitude, 0, 10 * Scale)
        /\ Inside(args.depth, 0, 700 * Scale)
        /\ Inside(args.distance, 0, PosInf)) =>
         IsValue(ret)

\* A call with magnitude and distance in range and depth just above 700 km
\* has failed on the depth check.
C3_Witness ==
  /\ Done("calculateIntensity")
  /\ Inside(args.magnitude, 0, 10 * Scale)
  /\ args.depth = 700 * Scale + 1
  /\ Inside(args.distance, 0, PosInf)
  /\ IsError(ret)
  /\ ret.what = "depth"

\* C4: each of calculateIntensity, calculateIntensityFromHypocentral and
\* getEpicentralIntensity fails with an error, instead of returning an
\* intensity, when called with magnitude outside [0,10], with depth outside
\* [0,700] where it takes a depth, or with a negative distance where it takes
\* one.
C4_EveryFunctionRejects ==
  (/\ pc = "done"
   /\ \/ Outside(args.magnitude, 0, 10 * Scale)
      \/ "depth" \in DOMAIN args /\ Outside(args.depth, 0, 700 * Scale)
      \/ "distance" \in DOMAIN args /\ Outside(args.distance, 0, PosInf)
      \/ /\ "hypocentralDistance" \in DOMAIN args
         /\ Outside(args.hypocentralDistance, 0, PosInf))
  => IsError(ret)

\* The inputs calculateIntensity accepts.
ValidInputs(M, h, distance) ==
  Inside(M, 0, 10 * Scale) /\ Inside(h, 0, 700 * Scale) /\ Inside(distance, 0, PosInf)

\* C5: for valid inputs calculateIntensity returns a value >= 0; a larger
\* magnitude, with depth and distance held fixed, never gives a smaller
\* value; and a larger distance, with magnitude and depth held fixed, never
\* gives a larger value wherever the hypocentral distance is >= 1 km.
C5_NonNegativeMonotone ==
  (Done("calculateIntensity") /\ ValidInputs(args.magnitude, args.depth, args.distance))
  => /\ IsValue(ret)
     /\ ret.value >= 0
     /\ \A M2 \in MagnitudeInputs :
          (Inside(M2, 0, 10 * Scale) /\ M2 >= args.magnitude) =>
            calculateIntensity(M2, args.depth, args.distance).value >= ret.value
     /\ \A d2 \in DistanceInputs :
          (/\ Inside(d2, 0, PosInf)
           /\ d2 >= args.distance
           /\ SqrtSumSquares(args.distance, args.depth) >= 1 * Scale) =>
            calculateIntensity(args.magnitude, args.depth, d2).value <= ret.value

\* A valid call whose value is positive, exceeded at a larger magnitude and
\* undercut at a larger distance.
C5_Witness ==
  /\ Done("calculateIntensity")
  /\ ValidInputs(args.magnitude, args.depth, args.distance)
  /\ SqrtSumSquares(args.distance, args.depth) >= 1 * Scale
  /\ ret.value > 0
  /\ \E M2 \in MagnitudeInputs :
       /\ Inside(M2, 0, 10 * Scale) /\ M2 > args.magnitude
       /\ calculateIntensity(M2, args.depth, args.distance).value > ret.value
  /\ \E d2 \in DistanceInputs :
       /\ Inside(d2, 0, PosInf) /\ d2 > args.distance
       /\ calculateIntensity(args.magnitude, args.depth, d2).value < ret.value

\* Band i holds x: min <= x < max, the last band having no upper end.
InBand(x, i) ==
  /\ MMI_SCALE[i].minIntensity <= x
  /\ (i = Len(MMI_SCALE) \/ x < MMI_SCALE[i].maxIntensity)

BandsOf(x) == {i \in 1..Len(MMI_SCALE) : InBand(x, i)}

\* C6: the twelve bands partition [0, infinity): the first starts at 0, each
\* band's maxIntensity is the next band's minIntensity, the last has no finite
\* upper end; and for every intensity x >= 0 exactly one band has
\* min <= x < max, getMMI(x) returns that band, and an x equal to a band's
\* minIntensity is put in that band, not the one before.
C6_BandsPartition ==
  /\ Len(MMI_SCALE) = 12
  /\ MMI_SCALE[1].minIntensity = 0
  /\ \A i \in 1..11 : MMI_SCALE[i].maxIntensity = MMI_SCALE[i + 1].minIntensity
  /\ \A i \in 1..12 : MMI_SCALE[i].minIntensity < MMI_SCALE[i].maxIntensity
  /\ MMI_SCALE[12].maxIntensity = PosInf
  /\ (Done("getMMI") /\ Inside(args.intensityValue, 0, PosInf) /\ IsFinite(args.intensityValue))
     => /\ Cardinality(BandsOf(args.intensityValue)) = 1
        /\ \A i \in BandsOf(args.intensityValue) :
             /\ ret.numericLevel = i
             /\ ret.level = MMI_SCALE[i].level
             /\ ret.minIntensity = MMI_SCALE[i].minIntensity
        /\ \A i \in 1..12 :
             args.intensityValue = MMI_SCALE[i].minIntensity => ret.numericLevel = i

\* getMMI was called with the lower edge of a band above the first and
\* returned that band.
C6_Witness ==
  /\ Done("getMMI")
  /\ \E i \in 2..12 :
       /\ args.intensityValue = MMI_SCALE[i].minIntensity
       /\ ret.numericLevel = i

\* C7: getMMI returns a band for every input: band I (numericLevel 1) for a
\* negative or not-a-number intensity, and band XII (numericLevel 12) for
\* every intensity at or above 11.5, +Infinity included.
C7_TotalWithEdgeBands ==
  Done("getMMI") =>
    /\ ret.numericLevel \in 1..12
    /\ ret.level = MMI_SCALE[ret.numericLevel].level
    /\ (isNaN(args.intensityValue) \/ Outside(args.intensityValue, 0, PosInf)) =>
         ret.numericLevel = 1 /\ ret.level = "I"
    /\ Inside(args.intensityValue, 11500, PosInf) =>
         ret.numericLevel = 12 /\ ret.level = "XII"

\* getMMI(NaN) has returned band I.
C7_WitnessNaN == Done("getMMI") /\ isNaN(args.intensityValue) /\ ret.numericLevel = 1

\* C8: estimateDamage lies in [0,100] for every input; an intensity at least
\* as large as another never gets a smaller damage, negative intensities and
\* the switch at 0 included; and every negative or not-a-number intensity
\* gets exactly 0.
C8_DamageBoundedMonotone ==
  Done("estimateDamage") =>
    /\ 0 <= ret /\ ret <= 100 * Scale
    /\ (isNaN(args.intensityValue) \/ Outside(args.intensityValue, 0, PosInf)) => ret = 0
    /\ args.intensityValue = -5 * Scale => ret = 0
    /\ ~isNaN(args.intensityValue) =>
         \A y \in IntensityInputs :
           (~isNaN(y) /\ y >= args.intensityValue) => estimateDamage(y) >= ret

\* estimateDamage was called just below 0 and returned 0, while at 0 itself
\* it is positive.
C8_Witness ==
  /\ Done("estimateDamage")
  /\ args.intensityValue = -1
  /\ ret = 0
  /\ estimateDamage(0) > 0

\* C9: with k = 1.5 and threshold = 6.0, estimateDamage(7.2) lies in [73, 79]
\* and estimateDamage(5.0) lies in [15, 21].
C9_ReferencePoints ==
  /\ DAMAGE_PARAMETERS = [k |-> 1500, threshold |-> 6000]
  /\ (Done("estimateDamage") /\ args.intensityValue = 7200) =>
       (73000 <= ret /\ ret <= 79000)
  /\ (Done("estimateDamage") /\ args.intensityValue = 5000) =>
       (15000 <= ret /\ ret <= 21000)

\* C10: for every totalPopulation and damagePercent, whatever their range,
\* the result of estimateAffectedPopulation has displaced <= affected <= total.
C10_DisplacedAffectedTotal ==
  Done("estimateAffectedPopulation") =>
    ret.displaced <= ret.affected /\ ret.affected <= ret.total

\* n is a whole number.
IsWhole(n) == n % Scale = 0

\* C10 as amended: for every whole-number totalPopulation and every
\* damagePercent of at most 100, the result has displaced <= affected <= total.
C10_Amended ==
  (/\ Done("estimateAffectedPopulation")
   /\ IsWhole(args.totalPopulation)
   /\ args.damagePercent <= 100 * Scale)
  => ret.displaced <= ret.affected /\ ret.affected <= ret.total

\* A call with a whole population and a damage between 40 and 100 percent
\* that displaced some, but not all, of the affected.
C10_Witness ==
  /\ Done("estimateAffectedPopulation")
  /\ IsWhole(args.totalPopulation)
  /\ args.damagePercent > 40 * Scale /\ args.damagePercent <= 100 * Scale
  /\ 0 < ret.displaced /\ ret.displaced < ret.affected /\ ret.affected <= ret.total

\* C11: for every totalPopulation and every damagePercent <= 40,
\* estimateAffectedPopulation returns displaced = 0.
C11_NoDisplacementUpTo40 ==
  (Done("estimateAffectedPopulation") /\ args.damagePercent <= 40 * Scale)
  => ret.displaced = 0

\* A call at exactly 40 percent that affected some people and displaced none.
C11_Witness ==
  /\ Done("estimateAffectedPopulation")
  /\ args.damagePercent = 40 * Scale
  /\ ret.affected > 0
  /\ ret.displaced = 0

\* C12: whenever totalPopulation < 0 or damagePercent < 0, both
\* estimateAffectedPopulation and estimateEconomicLoss return a result whose
\* numeric fields are all 0.
C12_NegativeInputsGiveZeros ==
  (/\ pc = "done"
   /\ fn \in {"estimateAffectedPopulation", "estimateEconomicLoss"}
   /\ (args.totalPopulation < 0 \/ args.damagePercent < 0))
  => \A f \in DOMAIN ret : ret[f] = 0

\* C13: for damagePercent in [0,100] and totalPopulation >= 0 every
\* percentage the damage model returns lies in [0,100]: the result of
\* estimateDamage, the four damage values of getBuildingDamageByType,
\* percentAffected of estimateAffectedPopulation and percentOfGDP of
\* estimateEconomicLoss.
C13_PercentagesWithinRange ==
  /\ Done("estimateDamage") => Inside(ret, 0, 100 * Scale)
  /\ Done("getBuildingDamageByType") =>
       \A t \in {"modern", "standard", "unreinforced", "informal"} :
         Inside(ret[t].damage, 0, 100 * Scale)
  /\ (/\ Done("estimateAffectedPopulation")
      /\ Inside(args.damagePercent, 0, 100 * Scale)
      /\ args.totalPopulation >= 0) =>
       Inside(ret.percentAffected, 0, 100 * Scale)
  /\ (/\ Done("estimateEconomicLoss")
      /\ Inside(args.damagePercent, 0, 100 * Scale)
      /\ args.totalPopulation >= 0) =>
       Inside(ret.percentOfGDP, 0, 100 * Scale)

\* C14: for every totalPopulation and every damagePercent < 60,
\* estimateCasualtyRisk returns low = medium = high = 0.
C14_NoCasualtiesBelow60 ==
  (Done("estimateCasualtyRisk") /\ args.damagePercent < 60 * Scale)
  => ret.low = 0 /\ ret.medium = 0 /\ ret.high = 0

\* A call just below 60 percent returned zeros for a population that has
\* casualties at 100 percent.
C14_Witness ==
  /\ Done("estimateCasualtyRisk")
  /\ args.damagePercent = 60 * Scale - 1
  /\ ret.low = 0 /\ ret.medium = 0 /\ ret.high = 0
  /\ estimateCasualtyRisk(args.totalPopulation, 100 * Scale).medium > 0

\* C15: for every totalPopulation and damagePercent, whatever their range,
\* the result of estimateCasualtyRisk has low <= medium <= high.
C15_CasualtiesOrdered ==
  Done("estimateCasualtyRisk") => ret.low <= ret.medium /\ ret.medium <= ret.high

\* The six bands of damage percent: [0,5) None, [5,15) Very Light,
\* [15,30) Light, [30,50) Moderate, [50,70) Heavy, [70,100] Very Heavy.
CategoryBands ==
  << [lo |-> 0, hi |-> 5, category |-> "None", severity |-> 0],
     [lo |-> 5, hi |-> 15, category |-> "Very Light", severity |-> 1],
     [lo |-> 15, hi |-> 30, category |-> "Light", severity |-> 2],
     [lo |-> 30, hi |-> 50, category |-> "Moderate", severity |-> 3],
     [lo |-> 50, hi |-> 70, category |-> "Heavy", severity |-> 4],
     [lo |-> 70, hi |-> 100, category |-> "Very Heavy", severity |-> 5] >>

\* Band b holds percent p; only the last band holds its upper end.
InCategoryBand(p, b) ==
  /\ CategoryBands[b].lo * Scale <= p
  /\ (p < CategoryBands[b].hi * Scale
      \/ (b = Len(CategoryBands) /\ p = CategoryBands[b].hi * Scale))

\* C16: for every percent in [0,100] getDamageCategory returns the band that
\* holds it, with that band's severity; so the severity never decreases as
\* percent grows, and a percent equal to a band's lower bound falls in that
\* band.
C16_CategoryBands ==
  (Done("getDamageCategory") /\ Inside(args.damagePercent, 0, 100 * Scale))
  => /\ \E b \in 1..Len(CategoryBands) : InCategoryBand(args.damagePercent, b)
     /\ \A b \in 1..Len(CategoryBands) :
          InCategoryBand(args.damagePercent, b) =>
            /\ ret.category = CategoryBands[b].category
            /\ ret.severity = CategoryBands[b].severity
     /\ \A b \in 1..Len(CategoryBands) :
          args.damagePercent = CategoryBands[b].lo * Scale => ret.severity = b - 1
     /\ \A q \in PercentInputs :
          (Inside(q, args.damagePercent, 100 * Scale)) =>
            getDamageCategory(q).severity >= ret.severity

\* getDamageCategory was called with the lower bound of a band above the
\* first and returned that band.
C16_Witness ==
  /\ Done("getDamageCategory")
  /\ \E b \in 2..Len(CategoryBands) :
       /\ args.damagePercent = CategoryBands[b].lo * Scale
       /\ ret.category = CategoryBands[b].category

\* The intensity the function passed in gives scenario i of the call.
ScenarioIntensity(i) ==
  ApplyIntensity(args.calculateIntensity, args.scenarios[i].magnitude,
                 args.scenarios[i].depth, args.scenarios[i].distance)

\* C17: for every list of scenario records with magnitude, depth and distance
\* fields, whatever other fields they carry, and every intensity function
\* that returns for all of them, compareDamageScenarios returns as many
\* results in input order, result i (1-based here) having scenarioId = i and
\* the intensity, damage, category and severity derived from scenario i alone.
C17_ScenariosMappedInOrder ==
  (/\ Done("compareDamageScenarios")
   /\ \A i \in 1..Len(args.scenarios) : IsValue(ScenarioIntensity(i)))
  => /\ IsValue(ret)
     /\ Len(ret.value) = Len(args.scenarios)
     /\ \A i \in 1..Len(args.scenarios) :
          /\ ret.value[i].scenarioId = i
          /\ ret.value[i].magnitude = args.scenarios[i].magnitude
          /\ ret.value[i].depth = args.scenarios[i].depth
          /\ ret.value[i].distance = args.scenarios[i].distance
          /\ ret.value[i].intensity = ScenarioIntensity(i).value
          /\ ret.value[i].damage = estimateDamage(ScenarioIntensity(i).value)
          /\ ret.value[i].category
               = getDamageCategory(estimateDamage(ScenarioIntensity(i).value)).category
          /\ ret.value[i].severity
               = getDamageCategory(estimateDamage(ScenarioIntensity(i).value)).severity

\* C18: every object returned by getMMI, for any input, and every element
\* returned by getMMIScale is built by that call and is never an entry of
\* the shared MMI table; so after any sequence of MMI calls and caller-side
\* writes to the returned objects the table is unchanged and getMMI(x) gives
\* the same band data for the same x.
C18_TableNeverShared ==
  /\ \A h \in 1..Len(held) : held[h].kind = "fresh"
  /\ table = MMI_SCALE
  /\ \A x \in HeldIntensities :
       FieldsOf(getMMIObject(table, x), table)
         = FieldsOf(getMMIObject(MMI_SCALE, x), MMI_SCALE)

\* Magnitude and depth of the call are ordered numbers inside their ranges.
ValidEvent == Inside(args.magnitude, 0, MaxMagnitude) /\ Inside(args.depth, 0, MaxDepth)

\* C19: for every magnitude in [0,10] and depth in [0,700],
\* getEpicentralIntensity(magnitude, depth) equals
\* calculateIntensity(magnitude, depth, 0), and no distance d >= 0 gives
\* calculateIntensity(magnitude, depth, d) a larger value.
C19_EpicentralIsMaximum ==
  /\ (Done("getEpicentralIntensity") /\ ValidEvent)
       => ret = calculateIntensity(args.magnitude, args.depth, 0)
  /\ (Done("calculateIntensity") /\ ValidEvent /\ Ge(args.distance, 0))
       => /\ IsValue(ret)
          /\ Le(ret.value, getEpicentralIntensity(args.magnitude, args.depth).value)

\* A call away from the epicentre that gives a positive intensity strictly
\* below the epicentral one.
C19_Witness ==
  /\ Done("calculateIntensity") /\ ValidEvent /\ Gt(args.distance, 0)
  /\ IsValue(ret) /\ Gt(ret.value, 0)
  /\ Lt(ret.value, getEpicentralIntensity(args.magnitude, args.depth).value)

\* The interval of the bisection is inside [0, 5000] km and in order, within
\* the iteration budget, and what was returned is the middle of the interval
\* the loop ended with.
FeltInterval ==
  (fn = "estimateFeltRadius" /\ ValidEvent /\ pc \in {"loop", "done"})
  => /\ 0 <= minDist /\ minDist <= maxDist /\ maxDist <= FeltMaxDist
     /\ iterations <= MaxIterations
     /\ pc = "done"
          => /\ IsValue(ret)
             /\ 2 * ret.value \in {minDist + maxDist - 1, minDist + maxDist}
             /\ Inside(ret.value, 0, FeltMaxDist)

\* A step that stays in the loop uses up one of the iterations; a step out
\* of the loop, for a valid event, is the return and not an exception.
LoopAdvances ==
  (fn = "estimateFeltRadius" /\ ValidEvent /\ pc = "loop")
  => \/ pc' = "loop" /\ iterations' = iterations + 1 /\ iterations' <= MaxIterations
     \/ pc' = "done" /\ IsValue(ret') /\ iterations' = iterations

\* C20: for every valid magnitude and depth and every targetIntensity, the
\* bisection loop of estimateFeltRadius ends after at most 50 iterations, the
\* search interval stays inside [0, 5000] with minDist <= maxDist throughout,
\* and the value returned is the midpoint of the final interval, hence in
\* [0, 5000].
C20_BisectionTerminates == []FeltInterval /\ [][LoopAdvances]_vars

\* A finished search that moved both ends of the interval.
C20_Witness ==
  /\ Done("estimateFeltRadius") /\ ValidEvent /\ IsValue(ret)
  /\ 0 < minDist /\ maxDist < FeltMaxDist /\ iterations > 1

\* What calculateIntensity returns at the given distance for the event of
\* the call in progress.
IntensityAt(distance) == calculateIntensity(args.magnitude, args.depth, distance).value

\* The intensity at distance 0 exceeds the target and at 5000 km does not.
TargetBracketed ==
  /\ Gt(IntensityAt(0), args.targetIntensity)
  /\ Le(IntensityAt(FeltMaxDist), args.targetIntensity)

\* C21: when estimateFeltRadius returns for valid magnitude and depth, the
\* final interval is at most 1 km wide, the intensity at minDist exceeds the
\* target unless minDist is still 0, and the intensity at maxDist does not
\* exceed it unless maxDist is still 5000; so when the intensity at 0 exceeds
\* the target and the intensity at 5000 km does not, the crossing lies in the
\* final interval and the returned distance is within 0.5 km of it.
C21_IntervalBracketsTarget ==
  (Done("estimateFeltRadius") /\ ValidEvent /\ ~isNaN(args.targetIntensity))
  => /\ IsValue(ret)
     /\ maxDist - minDist <= Tolerance
     /\ minDist # 0 => Gt(IntensityAt(minDist), args.targetIntensity)
     /\ maxDist # FeltMaxDist => Le(IntensityAt(maxDist), args.targetIntensity)
     /\ TargetBracketed
          => /\ Gt(IntensityAt(minDist), args.targetIntensity)
             /\ Le(IntensityAt(maxDist), args.targetIntensity)
             /\ minDist <= ret.value /\ ret.value <= maxDist
             /\ 2 * (ret.value - minDist) <= Tolerance
             /\ 2 * (maxDist - ret.value) <= Tolerance

\* A finished search for a target the event crosses, with both ends moved.
C21_Witness ==
  /\ Done("estimateFeltRadius") /\ ValidEvent /\ ~isNaN(args.targetIntensity)
  /\ TargetBracketed
  /\ 0 < minDist /\ maxDist < FeltMaxDist /\ minDist < maxDist

\* C22: getModelParameters returns {a: -3.5, b: 1.8, c: 3.5, d: 0.002} and
\* getDamageParameters returns {k: 1.5, threshold: 6.0} on every call, and
\* after any caller-side write to a returned object calculateIntensity,
\* estimateDamage and the two getters return what they returned before.
C22_ParametersReadOnly ==
  /\ parameters.attenuation = ATTENUATION_CONSTANTS
  /\ parameters.damage = DAMAGE_PARAMETERS
  /\ fn = "getModelParameters"
       => ret = Return([a |-> -3500, b |-> 1800, c |-> 3500, d |-> 2])
  /\ fn = "getDamageParameters" => ret = Return([k |-> 1500, threshold |-> 6000])
  /\ fn = "calculateIntensity"
       => ret = calculateIntensity(args.magnitude, args.depth, args.distance)
  /\ fn = "estimateDamage" => ret = Return(estimateDamage(args.intensityValue))

\* A call of calculateIntensity made while the caller holds a parameter
\* object it has written to.
C22_Witness ==
  /\ fn = "calculateIntensity" /\ IsValue(ret)
  /\ \E h \in 1..Len(held) :
       /\ "a" \in DOMAIN FieldsOf(held[h], parameters)
       /\ FieldsOf(held[h], parameters).a = 0

\* The great-circle distance between the two points of the call.
HorizontalDistance ==
  calculateDistance(args.epicenter.lat, args.epicenter.lon, args.site.lat, args.site.lon)

\* r is the square root of x^2 + y^2 to the thousandth:
\* r^2 <= x^2 + y^2 < (r + 1)^2.
IsRootOfSquares(r, x, y) ==
  /\ WideLe(WideMul(r, r), WideAdd(WideMul(x, x), WideMul(y, y)))
  /\ ~WideLe(WideMul(r + 1, r + 1), WideAdd(WideMul(x, x), WideMul(y, y)))

\* C23: for every pair of points and every depth >= 0,
\* calculateHypocentralDistance returns sqrt(horizontalDistance^2 + depth^2)
\* with horizontalDistance the calculateDistance of the two points, so the
\* result is >= depth and >= the surface distance, and equals the surface
\* distance when depth is 0.
C23_HypocentralDistance ==
  (Done("calculateHypocentralDistance") /\ Ge(args.depth, 0))
  => /\ IsValue(ret)
     /\ Ge(ret.value, args.depth)
     /\ Ge(ret.value, HorizontalDistance)
     /\ args.depth = 0 => ret.value = HorizontalDistance
     /\ IF IsFinite(args.depth)
        THEN IsRootOfSquares(ret.value, HorizontalDistance, args.depth)
        ELSE ret.value = PosInf

\* A call with two different points and a positive finite depth, whose
\* result is above both the depth and the surface distance.
C23_Witness ==
  /\ Done("calculateHypocentralDistance")
  /\ Gt(args.depth, 0) /\ IsFinite(args.depth) /\ HorizontalDistance > 0
  /\ Gt(ret.value, args.depth) /\ Gt(ret.value, HorizontalDistance)

\* The intensity function passed to the call fails on scenario i.
FailsOn(i) ==
  /\ args.calculateIntensity = "calculateIntensity"
  /\ IsError(calculateIntensity(args.scenarios[i].magnitude, args.scenarios[i].depth,
                                args.scenarios[i].distance))

\* i is the first scenario the intensity function fails on.
FirstFailure(i) == FailsOn(i) /\ \A j \in 1..(i - 1) : ~FailsOn(j)

\* C24: if the intensity function passed to compareDamageScenarios fails for
\* scenario i, its error is what the caller gets, unchanged; no partial
\* result list is returned; the scenarios before i have been evaluated in
\* input order and the scenarios after i are never evaluated.
C24_ErrorPropagates ==
  fn = "compareDamageScenarios"
  => /\ \A j \in 1..Len(evaluated) : evaluated[j] = j
     /\ pc # "done" => ret = Pending
     /\ \A i \in 1..Len(args.scenarios) :
          FirstFailure(i)
          => /\ Len(evaluated) <= i
             /\ pc = "done"
                  => /\ ret = calculateIntensity(args.scenarios[i].magnitude,
                                                 args.scenarios[i].depth,
                                                 args.scenarios[i].distance)
                     /\ evaluated = [j \in 1..i |-> j]

\* A call that ended with the error of a scenario that is neither the first
\* nor the last of the list.
C24_Witness ==
  /\ Done("compareDamageScenarios") /\ IsError(ret)
  /\ Len(evaluated) > 1 /\ Len(evaluated) < Len(args.scenarios)
  /\ Len(mapped) = Len(evaluated) - 1

\* C25: both qualitative checks of validateModel meet their expectation:
\* calculateIntensity(8.0, 30, 50) >= 8.0 and
\* calculateIntensity(5.5, 20, 500) <= 3.0, so meetsExpectation is true for
\* the 'M8.0 at 50km' and the 'M5.5 at 500km' entries.
C25_ReferenceChecksMet ==
  Done("validateModel")
  => /\ ret.value[2].name = "M8.0 at 50km"
     /\ ret.value[2].meetsExpectation
     /\ Ge(calculateIntensity(8000, 30000, 50000).value, 8000)
     /\ ret.value[3].name = "M5.5 at 500km"
     /\ ret.value[3].meetsExpectation
     /\ Le(calculateIntensity(5500, 20000, 500000).value, 3000)

\* The Roman numerals of the scale, I to XII, by their characters.
RomanNumerals ==
  << <<"I">>, <<"I", "I">>, <<"I", "I", "I">>, <<"I", "V">>, <<"V">>, <<"V", "I">>,
     <<"V", "I", "I">>, <<"V", "I", "I", "I">>, <<"I", "X">>, <<"X">>, <<"X", "I">>,
     <<"X", "I", "I">> >>

\* Two characters are the same letter in either case.
SameLetter(c, d) ==
  \/ c = d
  \/ {c, d} \in {{"i", "I"}, {"v", "V"}, {"x", "X"}}

\* mmiLevel names band n: the number n, or the numeral of n in any case.
NamesBand(mmiLevel, n) ==
  IF mmiLevel.type = "number" THEN mmiLevel.value = n * Scale
  ELSE /\ Len(mmiLevel.chars) = Len(RomanNumerals[n])
       /\ \A k \in 1..Len(mmiLevel.chars) :
            SameLetter(mmiLevel.chars[k], RomanNumerals[n][k])

\* C26: getIntensityRangeForMMI returns the {min, max, level} of band n for
\* the number n in 1..12 and for the Roman numeral of n in any letter case,
\* the two lookups agreeing, and returns null for every number outside
\* 1..12 and every string that is not one of the numerals I to XII.
C26_InverseLookup ==
  Done("getIntensityRangeForMMI")
  => /\ \A n \in 1..12 :
          NamesBand(args.mmiLevel, n)
          => ret = Return([min |-> MMI_SCALE[n].minIntensity,
                           max |-> MMI_SCALE[n].maxIntensity,
                           level |-> MMI_SCALE[n].level])
     /\ (\A n \in 1..12 : ~NamesBand(args.mmiLevel, n)) => ret = Return(Null)

\* C27: in the App no sequence of user events reaches a state in which the
\* results effect fails: magnitude stays in [5.0, 9.5] and depth in
\* [5, 100], inside the ranges calculateIntensity accepts, the distance
\* passed to calculateIntensity is never negative, calculateIntensity never
\* throws, and once the city list has loaded results is there after every
\* change.
C27_ResultsEffectNeverFails ==
  /\ Inside(magnitude, MagnitudeSliderMin, MagnitudeSliderMax)
  /\ Inside(depth, DepthSliderMin, DepthSliderMax)
  /\ Inside(magnitude, 0, MaxMagnitude)
  /\ Inside(depth, 0, MaxDepth)
  /\ results.kind # "uncaught"
  /\ Len(cities) > 0
       => /\ results.kind = "results"
          /\ Ge(results.distance, 0)
          /\ IsValue(calculateIntensity(magnitude, depth, results.distance))

\* Both sliders at their upper ends and the epicenter moved, with results
\* computed.
C27_Witness ==
  /\ pc = "loaded" /\ Len(cities) > 0
  /\ magnitude = MagnitudeSliderMax /\ depth = DepthSliderMax
  /\ epicenter # DefaultEpicenter
  /\ results.kind = "results"

\* The selected city is one of the loaded list.
SelectedIsListed == \E i \in 1..Len(cities) : cities[i].city = selectedCity

\* C28: results is null as long as the city list is empty; once cities is
\* non-empty and the effects have run, results is what the current
\* magnitude, depth, epicenter, selectedCity and cities give, results.city is
\* the selected city when it is in the list and the first city otherwise,
\* and loading is false after the load attempt, whether both fetches
\* succeeded or one failed.
C28_ResultsCurrent ==
  /\ Len(cities) = 0 => results = Null
  /\ Len(cities) > 0
       => /\ results = ResultsEffect(Null, magnitude, depth, epicenter, selectedCity, cities)
          /\ results.intensityValue
               = calculateIntensity(magnitude, depth, results.distance).value
          /\ \E i \in 1..Len(cities) : cities[i].city = results.city
          /\ results.city = IF SelectedIsListed THEN selectedCity ELSE cities[1].city
  /\ loading <=> pc # "loaded"

\* The load is over, the selected city is not in the list, and the user has
\* changed the magnitude: results shows the first city.
C28_Witness ==
  /\ pc = "loaded" /\ ~loading /\ Len(cities) > 0
  /\ ~SelectedIsListed
  /\ magnitude # 7500
  /\ results.kind = "results" /\ results.city = cities[1].city


\* The class each MMI numeric level is given: the lowest level of each class.
ShakeClasses ==
  <<[from |-> 9, class |-> "shake-extreme"],
    [from |-> 7, class |-> "shake-severe"],
    [from |-> 5, class |-> "shake-strong"],
    [from |-> 3, class |-> "shake-moderate"],
    [from |-> 1, class |-> "shake-light"]>>

\* The class of a result: the first of ShakeClasses its level reaches.
IsClassOf(class, r) ==
  \E k \in 1..Len(ShakeClasses) :
    /\ ShakeClasses[k].class = class
    /\ r.mmi.numericLevel >= ShakeClasses[k].from
    /\ \A j \in 1..(k - 1) : r.mmi.numericLevel < ShakeClasses[j].from

\* At most one timeout is pending, it is pending exactly while a class is
\* set, it has no more than 1500 ms left, and the class is the one of the
\* current results.
OneTimerForCurrent ==
  /\ Len(timers) <= 1
  /\ shakeClass # "" <=> Len(timers) = 1
  /\ \A i \in 1..Len(timers) : timers[i] \in 0..ShakeTimeout
  /\ shakeClass # "" => results.kind = "results" /\ IsClassOf(shakeClass, results)

\* A change of results sets its class and leaves one timeout with 1500 ms
\* to run; a class is cleared only by a timeout that has run its 1500 ms.
ShakeSteps ==
  /\ results' # results
       => /\ shakeClass' # ""
          /\ IsClassOf(shakeClass', results')
          /\ timers' = <<ShakeTimeout>>
  /\ shakeClass # "" /\ shakeClass' = ""
       => timers = <<0>> /\ timers' = <<>> /\ results' = results

\* C29: in the App with the shake animation every change of results sets a
\* non-empty shake class chosen by the MMI numeric level of the result
\* (>= 9 extreme, >= 7 severe, >= 5 strong, >= 3 moderate, >= 1 light); the
\* class is cleared 1500 ms after the most recent change of results; the
\* timeout of a superseded result is cancelled before the next one starts,
\* so it never clears the class of a newer result, and at most one timeout
\* is pending at any time.
C29_ShakeFollowsResults == []OneTimerForCurrent /\ [][ShakeSteps]_vars

\* The user has changed the magnitude, the class of that result was set and
\* its timeout has run and cleared it.
C29_Witness ==
  /\ pc = "loaded" /\ magnitude # 7500
  /\ results.kind = "results"
  /\ shakeClass = "" /\ timers = <<>>


\* The largest value calculateIntensity returns for valid inputs: the
\* largest magnitude at the hypocentre.
LargestIntensity == calculateIntensity(MaxMagnitude, 0, 0).value

\* The render shows one active cell, and it is the classifier's level.
OneCellAsClassified(shown, intensity) ==
  /\ Len(shown.active) = 1
  /\ shown.active[1] = getMMI(intensity).level
  /\ shown.active[1] = shown.roman

\* C30: for every intensity calculateIntensity can return for valid inputs
\* exactly one of the twelve gauge cells of IntensityDisplay is active and
\* its level is getMMI(intensity).level, although the gauge has its own
\* band table whose top band ends at 99.
C30_GaugeAgreesWithClassifier ==
  /\ Len(mmiLevels) = 12
  /\ (Done("IntensityDisplay") /\ Inside(args.intensity, 0, LargestIntensity))
       => OneCellAsClassified(ret.value, args.intensity)
  /\ (Done("calculateIntensity") /\ ValidEvent /\ Ge(args.distance, 0))
       => /\ IsValue(ret)
          /\ OneCellAsClassified(
               ret.value,
               calculateIntensity(args.magnitude, args.depth, args.distance).value)

\* The largest intensity has been rendered: it is above 12 and the one
\* active cell is XII.
C30_Witness ==
  /\ Done("calculateIntensity")
  /\ args.magnitude = MaxMagnitude /\ args.depth = 0 /\ args.distance = 0
  /\ IsValue(ret) /\ ret.value.active = <<"XII">>
  /\ LargestIntensity > 12000

====
